---- MODULE Spec2Model ----
(***************************************************************************)
(* Parallel debug orchestration engine of debug_helpers:                   *)
(*   parallel_config.py    ParallelDebugConfig (port allocation table)     *)
(*   parallel_debugger.py  ParallelDebugger (scheduling loop, result       *)
(*                         collection, shutdown, signal handler)           *)
(*   debug_worker.py       DebugWorker (one worker process per scenario)   *)
(*   result_aggregator.py  ResultAggregator (basic statistics)             *)
(*                                                                         *)
(* Eleven specifications share the variables:                                *)
(*   Spec        one call of ParallelDebugger.run_parallel with its worker *)
(*               processes, the signal handler and a later shutdown()      *)
(*   FairSpec    the same run without interruption, with fair scheduling   *)
(*   ConfigSpec  arbitrary allocate_ports / release_ports call sequences   *)
(*   AggSpec     arbitrary add_result / aggregate call sequences           *)
(*   WorkerSpec  sibling DebugWorker processes running DebugWorker.run     *)
(*   PartialSpec   one aggregate() over result records with absent fields  *)
(*   AnalysisSpec  one aggregate() over result records with findings       *)
(*   TimelineSpec  one aggregate() over result records with time stamps    *)
(*   RecommendSpec the recommendation rules over AggregatedResults values  *)
(*   SimilaritySpec one aggregate() over two findings of one type          *)
(*   MonitorSpec    the live monitor handling the workers' status updates  *)
(***************************************************************************)
EXTENDS Integers, Sequences, FiniteSets, TLC

\* ---------------------------------------------------------------- bounds
MaxScenarios == 6        \* longest scenario list passed to run_parallel
MaxWorkers == 2          \* largest max_workers setting
MaxCount == 3            \* largest count passed to allocate_ports
MaxWorkerIds == 3        \* worker ids used by direct allocate/release calls
MaxResults == 3          \* longest result list given to the aggregator
MaxDuration == 2         \* largest duration of a result record
MaxAggregateCalls == 3   \* aggregate() calls on one aggregator
MaxPortRange == 4        \* largest port_range under direct allocate/release calls
MaxFairScenarios == 4    \* longest scenario list of a run checked for progress
MaxSiblings == 2         \* worker processes running side by side
MaxDropped == 1          \* status sends that fail, over all workers
MaxPartialResults == 1   \* result records with absent fields given to one aggregator
MaxMonitored == 2        \* workers followed by one monitor

\* ------------------------------------------------------ program constants
base_port == 3100
max_timeouts == 10
DefaultPortCount == 2
Inf == 1000000           \* float('inf'), the initial min_duration

\* port_range settings tried: one that the run exhausts, one that it does not
PortRanges == {4, 2 * MaxScenarios + 2}

\* ----------------------------------------------------------------- state
VARIABLES
    spec,               \* which API is being driven: "run", "config", "agg",
                        \* "worker", "partial", "analysis", "timeline",
                        \* "recommend", "similarity"
    \* run_parallel arguments and ResourceConfig
    scenarios,          \* the scenario list (scenario i is named i)
    failing,            \* scenarios whose test fails inside the worker
    max_workers,
    port_range,
    \* ParallelDebugConfig
    allocated_ports,    \* worker_id -> sequence of ports
    next_port,
    \* ParallelDebugger
    pc,                 \* control point of run_parallel
    scenario_queue,
    active_workers,     \* worker_id -> scenario (local of _execute_scenarios)
    workers,            \* worker_id -> process (index into procs)
    worker_scenarios,   \* worker_id -> scenario
    results,            \* local of _collect_results
    timeout_count,
    warned,             \* the "Timeout waiting for results" line was printed
    shutdown_event,
    shutdown_calls,     \* how many times shutdown() has run
    returned,           \* run_parallel has returned self.aggregated_results
    \* operating system and channels
    procs,              \* every process started: [worker_id, scenario, state]
    debug_workers,      \* the DebugWorker objects of the sibling processes
    result_queue,
    \* ResultAggregator
    worker_results,
    aggregated_results,
    \* history of the calls made (observation only)
    attempts,           \* scenarios handed to _start_worker, in order
    last_call,          \* the last config / aggregator call and its outcome
    aggregate_calls,
    \* ParallelMonitor and its status queue
    status_senders,     \* per worker: the _send_status calls still to come
    status_queue,       \* per worker: the updates put and not yet got
    monitor             \* ParallelMonitor: [workers, stats]

cfgVars == <<max_workers, port_range, allocated_ports, next_port>>
runVars == <<scenarios, failing, pc, scenario_queue, active_workers, workers,
             worker_scenarios, results, timeout_count, warned, shutdown_event,
             shutdown_calls, returned, procs, result_queue, attempts>>
aggVars == <<worker_results, aggregated_results, aggregate_calls>>
monVars == <<status_senders, status_queue, monitor>>
vars == <<spec, cfgVars, runVars, aggVars, last_call, debug_workers, monVars>>

\* ------------------------------------------------------------ dictionaries
EmptyMap == [k \in {} |-> 0]

MapPut(m, k, v) == [x \in (DOMAIN m) \cup {k} |-> IF x = k THEN v ELSE m[x]]

MapDel(m, k) == [x \in (DOMAIN m) \ {k} |-> m[x]]

Range(s) == {s[i] : i \in DOMAIN s}

\* ParallelMonitor.__init__ for the scenarios given: no worker seen, every
\* counter zero
NewMonitor(total) ==
    [workers |-> EmptyMap,
     stats |-> [total |-> total, completed |-> 0, failed |-> 0,
                running |-> 0]]

\* no monitor is watching and no worker sends a status
NoMonitor ==
    /\ status_senders = <<>>
    /\ status_queue = <<>>
    /\ monitor = NewMonitor(0)

\* dict.get(key, default)
Get(d, key, default) == IF key \in DOMAIN d THEN d[key] ELSE default

\* ------------------------------------------------- ParallelDebugConfig
\* the for-loop of allocate_ports: one port per iteration, raising when the
\* cursor has reached base_port + port_range
RECURSIVE AllocLoop(_, _, _, _)
AllocLoop(ports, cursor, limit, remaining) ==
    IF remaining = 0
    THEN [error |-> "none", ports |-> ports, next_port |-> cursor]
    ELSE IF cursor >= limit
         THEN [error |-> "RuntimeError", ports |-> ports, next_port |-> cursor]
         ELSE AllocLoop(Append(ports, cursor), cursor + 1, limit, remaining - 1)

\* mutant: the cursor is not advanced past the ports handed out
allocate_ports_keeps_cursor(table, cursor, limit, worker_id, count) ==
    IF worker_id \in DOMAIN table
    THEN [error |-> "ValueError", ports |-> <<>>,
          allocated_ports |-> table, next_port |-> cursor]
    ELSE LET r == AllocLoop(<<>>, cursor, limit, count) IN
         IF r.error # "none"
         THEN [error |-> r.error, ports |-> <<>>,
               allocated_ports |-> table, next_port |-> r.next_port]
         ELSE [error |-> "none", ports |-> r.ports,
               allocated_ports |-> MapPut(table, worker_id, r.ports),
               next_port |-> cursor]

\* mutant: the ports gathered so far are recorded before the range check fails
allocate_ports_records_partial(table, cursor, limit, worker_id, count) ==
    IF worker_id \in DOMAIN table
    THEN [error |-> "ValueError", ports |-> <<>>,
          allocated_ports |-> table, next_port |-> cursor]
    ELSE LET r == AllocLoop(<<>>, cursor, limit, count) IN
         [error |-> r.error, ports |-> r.ports,
          allocated_ports |-> MapPut(table, worker_id, r.ports),
          next_port |-> r.next_port]

\* mutant: the double-allocation test comes after the allocation loop
allocate_ports_checks_late(table, cursor, limit, worker_id, count) ==
    LET r == AllocLoop(<<>>, cursor, limit, count) IN
    IF r.error # "none"
    THEN [error |-> r.error, ports |-> <<>>,
          allocated_ports |-> table, next_port |-> r.next_port]
    ELSE IF worker_id \in DOMAIN table
         THEN [error |-> "ValueError", ports |-> <<>>,
               allocated_ports |-> table, next_port |-> r.next_port]
         ELSE [error |-> "none", ports |-> r.ports,
               allocated_ports |-> MapPut(table, worker_id, r.ports),
               next_port |-> r.next_port]

\* mutant: the range test lets the cursor reach base_port + port_range
allocate_ports_past_limit(table, cursor, limit, worker_id, count) ==
    IF worker_id \in DOMAIN table
    THEN [error |-> "ValueError", ports |-> <<>>,
          allocated_ports |-> table, next_port |-> cursor]
    ELSE LET r == AllocLoop(<<>>, cursor, limit + 1, count) IN
         IF r.error # "none"
         THEN [error |-> r.error, ports |-> <<>>,
               allocated_ports |-> table, next_port |-> r.next_port]
         ELSE [error |-> "none", ports |-> r.ports,
               allocated_ports |-> MapPut(table, worker_id, r.ports),
               next_port |-> r.next_port]

\* allocate_ports(worker_id, count): the outcome, the table and the cursor
allocate_ports(table, cursor, limit, worker_id, count) ==
    IF worker_id \in DOMAIN table
    THEN [error |-> "ValueError", ports |-> <<>>,
          allocated_ports |-> table, next_port |-> cursor]
    ELSE LET r == AllocLoop(<<>>, cursor, limit, count) IN
         IF r.error # "none"
         THEN [error |-> r.error, ports |-> <<>>,
               allocated_ports |-> table, next_port |-> r.next_port]
         ELSE [error |-> "none", ports |-> r.ports,
               allocated_ports |-> MapPut(table, worker_id, r.ports),
               next_port |-> r.next_port]

\* mutant: releasing drops the whole table
release_ports_clears(table, worker_id) ==
    IF worker_id \in DOMAIN table THEN EmptyMap ELSE table

\* release_ports(worker_id)
release_ports(table, worker_id) ==
    IF worker_id \in DOMAIN table THEN MapDel(table, worker_id) ELSE table

\* the decimal digit characters
DigitChars == <<"0", "1", "2", "3", "4", "5", "6", "7", "8", "9">>

\* str(n) of a non-negative int, as the sequence of its characters
RECURSIVE Str(_)
Str(n) ==
    IF n < 10 THEN <<DigitChars[n + 1]>>
    ELSE Append(Str(n \div 10), DigitChars[(n % 10) + 1])

\* get_worker_env(worker_id, scenario): the port variables it adds to the
\* environment, for a scenario whose environment_vars name no port
get_worker_env(table, worker_id) ==
    IF worker_id \in DOMAIN table
    THEN LET ports == table[worker_id] IN
         [APP_PORT |-> Str(ports[1]),
          API_PORT |-> IF Len(ports) > 1 THEN Str(ports[2])
                       ELSE Str(ports[1] + 1)]
    ELSE EmptyMap

\* ---------------------------------------------------- ResultAggregator
RECURSIVE Gcd(_, _)
Gcd(a, b) == IF b = 0 THEN a ELSE Gcd(b, a % b)

\* the float a / b, kept exact as a reduced fraction
Div(a, b) == LET g == Gcd(a, b) IN IF g = 0 THEN <<0, 1>> ELSE <<a \div g, b \div g>>

Min(a, b) == IF a < b THEN a ELSE b

Max(a, b) == IF a > b THEN a ELSE b

\* AggregatedResults() as constructed
NewAggregatedResults ==
    [total_scenarios |-> 0, successful_scenarios |-> 0, failed_scenarios |-> 0,
     success_rate |-> <<0, 1>>, total_duration |-> 0,
     average_duration |-> <<0, 1>>, min_duration |-> Inf, max_duration |-> 0,
     common_errors |-> <<>>, error_patterns |-> EmptyMap,
     common_findings |-> EmptyMap, root_causes |-> <<>>,
     performance_metrics |-> EmptyMap, test_data_usage |-> EmptyMap,
     scenario_results |-> EmptyMap, timeline |-> <<>>,
     recommendations |-> <<>>]

\* the loop body of _calculate_basic_stats for one worker result
StatsStep(res, wr) ==
    LET duration == Get(wr, "duration", 0)
        counted == IF wr.success
                   THEN [res EXCEPT !.successful_scenarios = @ + 1]
                   ELSE [res EXCEPT !.failed_scenarios = @ + 1]
        timed == IF duration # 0
                 THEN [counted EXCEPT !.total_duration = @ + duration,
                                      !.min_duration = Min(@, duration),
                                      !.max_duration = Max(@, duration)]
                 ELSE counted
    IN [timed EXCEPT !.scenario_results =
            MapPut(@, wr.scenario_name,
                   [success |-> wr.success, duration |-> duration,
                    worker_id |-> wr.worker_id])]

RECURSIVE StatsLoop(_, _)
StatsLoop(res, wrs) ==
    IF wrs = <<>> THEN res ELSE StatsLoop(StatsStep(res, Head(wrs)), Tail(wrs))

\* _calculate_basic_stats: works on the aggregator's own AggregatedResults
calculate_basic_stats(res, wrs) ==
    LET r0 == [res EXCEPT !.total_scenarios = Len(wrs)]
        r1 == StatsLoop(r0, wrs)
    IN IF r1.total_scenarios > 0
       THEN [r1 EXCEPT
               !.success_rate = Div(r1.successful_scenarios, r1.total_scenarios),
               !.average_duration = Div(r1.total_duration, r1.total_scenarios)]
       ELSE r1

\* ---------------------------------------------------- ErrorPatternAnalyzer
\* the keys of ErrorPatternAnalyzer.error_patterns, in dict order
ErrorCategories ==
    <<"null_reference", "timeout", "connection", "authentication",
      "validation", "database", "api_error">>

\* pattern.search(text) for the messages used as errors and log lines: the
\* categories whose regular expression matches the text
MatchingCategories(text) ==
    CASE text = "Test exceeded timeout of 1s" -> {"timeout"}
      [] text = "database connection failed: query timed out" ->
             {"timeout", "connection", "database"}
      [] text = "401 unauthorized error" -> {"authentication", "api_error"}
      [] text = "ERROR: connection refused" -> {"connection"}
      [] text = "INFO: no failures, timeout 30" -> {"timeout"}
      [] OTHER -> {}

\* 'error' in log_line.lower() or 'fail' in log_line.lower()
MentionsErrorOrFail(text) ==
    text \in {"Failed to execute test script: Test script failed with code 1",
              "database connection failed: query timed out",
              "401 unauthorized error", "ERROR: connection refused",
              "INFO: no failures, timeout 30"}

\* "if not worker_result['success'] and worker_result.get('error')"
HasError(wr) == ~wr.success /\ Get(wr, "error", "none") # "none"

RECURSIVE CategoryEntries(_, _, _)
\* the entries one text adds to error_categories: one per matching category,
\* in the order of the pattern dict, from position k on
CategoryEntries(entry, text, k) ==
    IF k > Len(ErrorCategories) THEN <<>>
    ELSE (IF ErrorCategories[k] \in MatchingCategories(text)
          THEN <<[category |-> ErrorCategories[k], entry |-> entry]>>
          ELSE <<>>) \o CategoryEntries(entry, text, k + 1)

RECURSIVE LogEntries(_, _)
\* the entries the log lines of one worker result add
LogEntries(scenario, logs) ==
    IF logs = <<>> THEN <<>>
    ELSE (IF MentionsErrorOrFail(Head(logs))
          THEN CategoryEntries([scenario |-> scenario, log |-> Head(logs)],
                               Head(logs), 1)
          ELSE <<>>) \o LogEntries(scenario, Tail(logs))

RECURSIVE ErrorEntries(_)
\* every append to error_categories made by the loop of analyze_errors, in
\* order
ErrorEntries(wrs) ==
    IF wrs = <<>> THEN <<>>
    ELSE LET wr == Head(wrs) IN
         (IF HasError(wr)
          THEN CategoryEntries([scenario |-> wr.scenario_name,
                                error |-> wr.error], wr.error, 1)
               \o LogEntries(wr.scenario_name, Get(wr, "logs", <<>>))
          ELSE <<>>) \o ErrorEntries(Tail(wrs))

\* the entries of one category, in order
EntriesOf(entries, category) ==
    LET sel == SelectSeq(entries, LAMBDA e : e.category = category)
    IN [k \in DOMAIN sel |-> sel[k].entry]

\* dict(error_categories): the categories with at least one entry
ErrorPatterns(wrs) ==
    LET entries == ErrorEntries(wrs)
        cats == {entries[k].category : k \in DOMAIN entries}
    IN [c \in cats |-> EntriesOf(entries, c)]

RECURSIVE ErrorMessages(_)
\* error_messages of analyze_errors
ErrorMessages(wrs) ==
    IF wrs = <<>> THEN <<>>
    ELSE (IF HasError(Head(wrs)) THEN <<Head(wrs).error>> ELSE <<>>)
         \o ErrorMessages(Tail(wrs))

\* how often x is in the sequence s
Count(s, x) == Cardinality({k \in DOMAIN s : s[k] = x})

\* the position of the first x in s
FirstIndex(s, x) == CHOOSE k \in DOMAIN s : s[k] = x /\ \A l \in 1 .. k - 1 : s[l] # x

\* Counter(error_messages).most_common(5): the distinct messages by falling
\* count, messages of equal count in the order of their first occurrence
MostCommon(msgs, n) ==
    LET distinct == {msgs[k] : k \in DOMAIN msgs}
        Before(a, b) ==
            \/ Count(msgs, a) > Count(msgs, b)
            \/ Count(msgs, a) = Count(msgs, b)
               /\ FirstIndex(msgs, a) < FirstIndex(msgs, b)
        Rank(a) == Cardinality({b \in distinct : Before(b, a)}) + 1
        m == IF Cardinality(distinct) < n THEN Cardinality(distinct) ELSE n
    IN [k \in 1 .. m |->
            LET a == CHOOSE x \in distinct : Rank(x) = k
            IN <<a, Count(msgs, a)>>]

\* ErrorPatternAnalyzer.analyze_errors
analyze_errors(wrs) ==
    [common_errors |-> MostCommon(ErrorMessages(wrs), 5),
     error_patterns |-> ErrorPatterns(wrs)]

\* --------------------------------------------------------- FindingsAnalyzer
\* A description is a sequence of words; a missing description is None.
\* The words used are single letters, so that one text contains another as
\* a string exactly when its words are a contiguous part of the other's.

\* str.lower() of a word
Lower(word) ==
    CASE word = "X" -> "x"
      [] word = "Y" -> "y"
      [] OTHER -> word

\* text.lower().strip()
Normalize(text) == [k \in DOMAIN text |-> Lower(text[k])]

\* "text1 in text2"
Contains(text2, text1) ==
    \E i \in 0 .. Len(text2) - Len(text1) :
        \A k \in 1 .. Len(text1) : text2[i + k] = text1[k]

\* set(text.split())
Words(text) == {text[k] : k \in DOMAIN text}

\* _are_similar on two descriptions that are not None
are_similar(text1, text2) ==
    LET t1 == Normalize(text1)
        t2 == Normalize(text2)
        words1 == Words(t1)
        words2 == Words(t2)
        overlap == Cardinality(words1 \cap words2)
    IN \/ t1 = t2
       \/ Contains(t2, t1) \/ Contains(t1, t2)
       \/ /\ words1 # {} /\ words2 # {}
          /\ 10 * overlap > 7 * Min(Cardinality(words1), Cardinality(words2))

\* the entry analyze_findings keeps of a finding; a key whose value is None
\* is left out
FindingEntry(scenario, finding) ==
    [k \in {"scenario"} \cup (DOMAIN finding \cap {"description", "evidence"})
        |-> IF k = "scenario" THEN scenario ELSE finding[k]]

RECURSIVE FindingEntriesOf(_, _)
\* the entries of the findings of one worker result, with their types
FindingEntriesOf(scenario, findings) ==
    IF findings = <<>> THEN <<>>
    ELSE <<[type |-> Get(Head(findings), "type", "observation"),
            entry |-> FindingEntry(scenario, Head(findings)),
            finding |-> Head(findings)]>>
         \o FindingEntriesOf(scenario, Tail(findings))

RECURSIVE AllFindings(_)
\* every finding of the result list, in the order of the loop of
\* analyze_findings
AllFindings(wrs) ==
    IF wrs = <<>> THEN <<>>
    ELSE FindingEntriesOf(Head(wrs).scenario_name,
                          Get(Head(wrs), "findings", <<>>))
         \o AllFindings(Tail(wrs))

\* findings_by_type[finding_type]
FindingsByType(all, type) ==
    LET sel == SelectSeq(all, LAMBDA f : f.type = type)
    IN [k \in DOMAIN sel |-> sel[k].entry]

\* the findings after position i, not yet seen, that are similar to finding i
SimilarTo(findings, i, seen) ==
    {j \in (i + 1 .. Len(findings)) \ seen :
        are_similar(findings[i].description, findings[j].description)}

\* the members of a set of positions, in rising order
RECURSIVE Ascending(_)
Ascending(S) ==
    IF S = {} THEN <<>>
    ELSE LET m == CHOOSE x \in S : \A y \in S : x <= y
         IN <<m>> \o Ascending(S \ {m})

\* the group dict built for finding i and the similar findings at sim
FindingGroup(findings, i, sim) ==
    LET members == <<i>> \o Ascending(sim)
        with_evidence == SelectSeq(members,
                             LAMBDA k : "evidence" \in DOMAIN findings[k])
    IN [description |-> findings[i].description,
        count |-> Len(members),
        scenarios |-> [k \in DOMAIN members |-> findings[members[k]].scenario],
        evidence |-> [k \in DOMAIN with_evidence |->
                          findings[with_evidence[k]].evidence]]

RECURSIVE GroupLoop(_, _, _)
\* the outer loop of _group_similar_findings from position i on
GroupLoop(findings, i, seen) ==
    IF i > Len(findings) THEN <<>>
    ELSE IF i \in seen THEN GroupLoop(findings, i + 1, seen)
    ELSE LET sim == SimilarTo(findings, i, seen)
         IN (IF sim # {} THEN <<FindingGroup(findings, i, sim)>> ELSE <<>>)
            \o GroupLoop(findings, i + 1, seen \cup sim)

\* _group_similar_findings of findings that all have a description
group_similar_findings(findings) == GroupLoop(findings, 1, {})

\* _group_similar_findings calls .lower() on a description that is None
GroupingRaises(findings) ==
    /\ Len(findings) > 1
    /\ \E k \in DOMAIN findings : "description" \notin DOMAIN findings[k]

\* the finding types whose findings are grouped, "len(findings) > 1"
GroupedTypes(all) ==
    {t \in {all[k].type : k \in DOMAIN all} : Len(FindingsByType(all, t)) > 1}

\* FindingsAnalyzer.analyze_findings; raised is the exception it ends with
analyze_findings(wrs) ==
    LET all == AllFindings(wrs)
        roots == SelectSeq(all, LAMBDA f : f.type = "root_cause")
        raises == \E t \in GroupedTypes(all) :
                      GroupingRaises(FindingsByType(all, t))
        kept == IF raises THEN {}
                ELSE {t \in GroupedTypes(all) :
                         group_similar_findings(FindingsByType(all, t)) # <<>>}
    IN [common_findings |->
            [t \in kept |-> group_similar_findings(FindingsByType(all, t))],
        root_causes |-> [k \in DOMAIN roots |-> roots[k].finding],
        raised |-> IF raises THEN "AttributeError" ELSE "none"]

\* ------------------------------------------------------ PerformanceAnalyzer
RECURSIVE CacheHitRates(_)
\* perf_data['cache_hit_rates']
CacheHitRates(wrs) ==
    IF wrs = <<>> THEN <<>>
    ELSE LET metrics == Get(Head(wrs), "metrics", EmptyMap)
         IN (IF "cache_hit_rate" \in DOMAIN metrics
             THEN <<metrics.cache_hit_rate>> ELSE <<>>)
            \o CacheHitRates(Tail(wrs))

RECURSIVE SumSeq(_)
SumSeq(s) == IF s = <<>> THEN 0 ELSE Head(s) + SumSeq(Tail(s))

\* PerformanceAnalyzer.analyze_performance, for metrics that hold at most a
\* cache_hit_rate (in percent)
analyze_performance(wrs) ==
    LET values == CacheHitRates(wrs)
        vs == Range(values)
    IN [performance_metrics |->
            IF values = <<>> THEN EmptyMap
            ELSE [m \in {"cache_hit_rates"} |->
                     [min |-> CHOOSE v \in vs : \A u \in vs : v <= u,
                      max |-> CHOOSE v \in vs : \A u \in vs : v >= u,
                      avg |-> Div(SumSeq(values), Len(values)),
                      values |-> values]],
        test_data_usage |-> EmptyMap]

\* ---------------------------------------------------------- TimelineBuilder
\* the events build_timeline appends for one worker result; a time stamp is
\* a positive number
WorkerEvents(wr) ==
    LET checkpoints == Get(wr, "checkpoints", <<>>) IN
    (IF "start_time" \in DOMAIN wr
     THEN <<[timestamp |-> wr.start_time, event |-> "start",
             scenario |-> wr.scenario_name, worker_id |-> wr.worker_id]>>
     ELSE <<>>)
    \o (IF "end_time" \in DOMAIN wr
        THEN <<[timestamp |-> wr.end_time, event |-> "end",
                scenario |-> wr.scenario_name, worker_id |-> wr.worker_id,
                success |-> wr.success]>>
        ELSE <<>>)
    \o [k \in DOMAIN checkpoints |->
           [timestamp |-> wr.start_time, event |-> "checkpoint",
            checkpoint |-> checkpoints[k], scenario |-> wr.scenario_name,
            worker_id |-> wr.worker_id]]

\* worker_result['start_time'] of the checkpoint loop raises KeyError
TimelineRaises(wr) ==
    Get(wr, "checkpoints", <<>>) # <<>> /\ "start_time" \notin DOMAIN wr

RECURSIVE TimelineEvents(_)
\* events of build_timeline before the sort
TimelineEvents(wrs) ==
    IF wrs = <<>> THEN <<>>
    ELSE WorkerEvents(Head(wrs)) \o TimelineEvents(Tail(wrs))

\* mutant: e is put in front of the events with the same time stamp
InsertByTimestamp_before_ties(s, e) ==
    LET k == Cardinality({i \in DOMAIN s : s[i].timestamp < e.timestamp})
    IN SubSeq(s, 1, k) \o <<e>> \o SubSeq(s, k + 1, Len(s))

\* e put into the sorted sequence s behind every event that is not later
InsertByTimestamp(s, e) ==
    LET k == Cardinality({i \in DOMAIN s : s[i].timestamp <= e.timestamp})
    IN SubSeq(s, 1, k) \o <<e>> \o SubSeq(s, k + 1, Len(s))

RECURSIVE SortByTimestamp(_, _)
\* events.sort(key=lambda x: x['timestamp']): a stable sort
SortByTimestamp(sorted, events) ==
    IF events = <<>> THEN sorted
    ELSE SortByTimestamp(InsertByTimestamp(sorted, Head(events)), Tail(events))

\* TimelineBuilder.build_timeline; raised is the exception it ends with
build_timeline(wrs) ==
    IF \E k \in DOMAIN wrs : TimelineRaises(wrs[k])
    THEN [timeline |-> <<>>, raised |-> "KeyError"]
    ELSE [timeline |-> SortByTimestamp(<<>>, TimelineEvents(wrs)),
          raised |-> "none"]

\* --------------------------------------------------- RecommendationGenerator
\* mutant: the three error-pattern rules are chained with elif
generate_recommendations_elif(res) ==
    (IF 2 * res.success_rate[1] < res.success_rate[2]
     THEN <<"low_success_rate">> ELSE <<>>)
    \o (IF "timeout" \in DOMAIN res.error_patterns
        THEN <<"timeout">>
        ELSE IF "authentication" \in DOMAIN res.error_patterns
        THEN <<"authentication">>
        ELSE IF "database" \in DOMAIN res.error_patterns
        THEN <<"database">> ELSE <<>>)
    \o (IF res.max_duration * res.average_duration[2]
              > 3 * res.average_duration[1]
        THEN <<"duration_variance">> ELSE <<>>)
    \o (IF res.root_causes # <<>> THEN <<"root_causes">> ELSE <<>>)
    \o (IF DOMAIN res.common_findings # {}
        THEN <<"common_findings">> ELSE <<>>)

\* RecommendationGenerator.generate_recommendations: the rules that fire, in
\* order
generate_recommendations(res) ==
    (IF 2 * res.success_rate[1] < res.success_rate[2]
     THEN <<"low_success_rate">> ELSE <<>>)
    \o (IF "timeout" \in DOMAIN res.error_patterns
        THEN <<"timeout">> ELSE <<>>)
    \o (IF "authentication" \in DOMAIN res.error_patterns
        THEN <<"authentication">> ELSE <<>>)
    \o (IF "database" \in DOMAIN res.error_patterns
        THEN <<"database">> ELSE <<>>)
    \o (IF res.max_duration * res.average_duration[2]
              > 3 * res.average_duration[1]
        THEN <<"duration_variance">> ELSE <<>>)
    \o (IF res.root_causes # <<>> THEN <<"root_causes">> ELSE <<>>)
    \o (IF DOMAIN res.common_findings # {}
        THEN <<"common_findings">> ELSE <<>>)

\* ---------------------------------------------------------- ResultAggregator
\* aggregate() step by step: results is self.aggregated_results when the
\* call ends, raised the exception it ends with. _save_to_master_session
\* catches its own exceptions and changes nothing here.
aggregate_steps(res, wrs) ==
    IF wrs = <<>> THEN [results |-> res, raised |-> "none"]
    ELSE
    LET errors == analyze_errors(wrs)
        findings == analyze_findings(wrs)
        performance == analyze_performance(wrs)
        timeline == build_timeline(wrs)
        r2 == [calculate_basic_stats(res, wrs) EXCEPT
                  !.common_errors = errors.common_errors,
                  !.error_patterns = errors.error_patterns]
        r4 == [r2 EXCEPT
                  !.common_findings = findings.common_findings,
                  !.root_causes = findings.root_causes,
                  !.performance_metrics = performance.performance_metrics,
                  !.test_data_usage = performance.test_data_usage]
        r5 == [r4 EXCEPT !.timeline = timeline.timeline]
    IN IF findings.raised # "none"
       THEN [results |-> r2, raised |-> findings.raised]
       ELSE IF timeline.raised # "none"
       THEN [results |-> r4, raised |-> timeline.raised]
       ELSE [results |-> [r5 EXCEPT !.recommendations =
                                        generate_recommendations(r5)],
             raised |-> "none"]

\* aggregate(): self.aggregated_results after the call
aggregate(res, wrs) == aggregate_steps(res, wrs).results

\* ------------------------------------------------------- worker processes
Alive(p) == p.state = "running"

AliveProcs(ps) == {i \in DOMAIN ps : Alive(ps[i])}

\* wall-clock seconds a worker spends on a scenario
ScenarioDuration(s) == ((s - 1) % MaxDuration) + 1

\* WorkerResult.to_dict() of the worker process p
ResultRecord(p) ==
    [worker_id |-> p.worker_id, scenario_name |-> p.scenario,
     success |-> p.scenario \notin failing,
     duration |-> ScenarioDuration(p.scenario)]

\* DebugWorker.run to its end: the result is put on the result queue as the
\* last action and the process exits
WorkerFinish(i) ==
    /\ spec = "run"
    /\ i \in DOMAIN procs /\ procs[i].state = "running"
    /\ result_queue' = Append(result_queue, ResultRecord(procs[i]))
    /\ procs' = [procs EXCEPT ![i].state = "exited"]
    /\ UNCHANGED <<spec, monVars, debug_workers, cfgVars, scenarios, failing, pc, scenario_queue,
                   active_workers, workers, worker_scenarios, results,
                   timeout_count, warned, shutdown_event, shutdown_calls,
                   returned, attempts, aggVars, last_call>>

\* the worker process is killed from outside before it reports
WorkerKilled(i) ==
    /\ spec = "run"
    /\ i \in DOMAIN procs /\ procs[i].state = "running"
    /\ procs' = [procs EXCEPT ![i].state = "killed"]
    /\ UNCHANGED <<spec, monVars, debug_workers, cfgVars, scenarios, failing, pc, scenario_queue,
                   active_workers, workers, worker_scenarios, results,
                   timeout_count, warned, shutdown_event, shutdown_calls,
                   returned, result_queue, attempts, aggVars, last_call>>

\* ------------------------------------------------------- ParallelDebugger
\* worker_id = f"worker_{len(self.workers)}"
NextWorkerId(wk) == Cardinality(DOMAIN wk)

\* mutant: the liveness test of the poll is inverted
CompletedWorkers_alive(wk, active, ps) ==
    {w \in DOMAIN wk : w \in DOMAIN active /\ ps[wk[w]].state = "running"}

\* completed_workers of one pass of the scheduling loop
CompletedWorkers(wk, active, ps) ==
    {w \in DOMAIN wk : w \in DOMAIN active /\ ~Alive(ps[wk[w]])}

\* mutant: the clean-up of the completed workers keeps their ports
ReleaseCompleted_keeps(table, done) == table

\* release_ports for every worker of completed_workers
ReleaseCompleted(table, done) ==
    [w \in (DOMAIN table) \ done |-> table[w]]

\* mutant: the scheduling loop stops as soon as the queue is empty
LoopGoesOn_while_queued(queue, active) == queue # <<>>

\* "while scenario_queue or active_workers"
LoopGoesOn(queue, active) == queue # <<>> \/ DOMAIN active # {}

\* the number of results _collect_results waits for
ExpectedResults(ws) == Cardinality(DOMAIN ws)

\* shutdown(): join every tracked process, terminate those still alive.  A
\* process that ends within the join timeout is one that finished before the
\* call, so every tracked process still alive here is terminated.
ShutdownProcs(ps, wk) ==
    [i \in DOMAIN ps |->
        IF i \in Range(wk) /\ Alive(ps[i])
        THEN [ps[i] EXCEPT !.state = "terminated"] ELSE ps[i]]

\* mutant: shutdown() leaves the allocation table as it is
ShutdownPorts_keeps(table, wk) == table

\* shutdown(): release_ports for every key of self.workers
ShutdownPorts(table, wk) ==
    [w \in (DOMAIN table) \ (DOMAIN wk) |-> table[w]]

RunInit ==
    /\ spec = "run"
    /\ scenarios \in {[i \in 1 .. n |-> i] : n \in 0 .. MaxScenarios}
    /\ failing \in {{}, {2}}
    /\ max_workers \in 1 .. MaxWorkers
    /\ port_range \in PortRanges
    /\ allocated_ports = EmptyMap
    /\ next_port = base_port
    /\ pc = "start"
    /\ scenario_queue = <<>> /\ active_workers = EmptyMap
    /\ workers = EmptyMap /\ worker_scenarios = EmptyMap
    /\ results = <<>> /\ timeout_count = 0 /\ warned = FALSE
    /\ shutdown_event = FALSE /\ shutdown_calls = 0 /\ returned = FALSE
    /\ procs = <<>> /\ result_queue = <<>>
    /\ worker_results = <<>> /\ aggregated_results = NewAggregatedResults
    /\ aggregate_calls = 0 /\ attempts = <<>>
    /\ last_call = [op |-> "none"]
    /\ debug_workers = <<>>
    /\ NoMonitor

\* mutant: the empty scenario list is let through
NoScenarios_accepts(scs) == FALSE

\* "if not scenarios" of run_parallel
NoScenarios(scs) == scs = <<>>

\* run_parallel up to the first pass of the scheduling loop
Begin ==
    /\ spec = "run" /\ pc = "start"
    /\ IF NoScenarios(scenarios)
       THEN pc' = "rejected" /\ UNCHANGED scenario_queue
       ELSE pc' = "inner" /\ scenario_queue' = scenarios
    /\ UNCHANGED <<spec, monVars, debug_workers, cfgVars, scenarios, failing, active_workers, workers,
                   worker_scenarios, results, timeout_count, warned,
                   shutdown_event, shutdown_calls, returned, procs,
                   result_queue, attempts, aggVars, last_call>>

\* mutant: the scenario is taken from the end of the list (list.pop())
pop_last(queue) ==
    [scenario |-> queue[Len(queue)], rest |-> SubSeq(queue, 1, Len(queue) - 1)]

\* scenario_queue.pop(0): the scenario returned and the list left behind
pop_first(queue) == [scenario |-> Head(queue), rest |-> Tail(queue)]

\* mutant: _start_worker without its except clause
start_worker_raises(table, cursor, limit, worker_id, launched) ==
    LET a == allocate_ports(table, cursor, limit, worker_id, DefaultPortCount)
    IN  [started |-> a.error = "none" /\ launched,
         raised |-> ~(a.error = "none" /\ launched),
         allocated_ports |-> a.allocated_ports,
         next_port |-> a.next_port]

\* _start_worker(scenario) under the id worker_id; launched tells whether
\* get_worker_env, Process(...) and process.start() go through.  started is
\* "a worker_id is returned", raised is "an exception leaves _start_worker".
start_worker(table, cursor, limit, worker_id, launched) ==
    LET a == allocate_ports(table, cursor, limit, worker_id, DefaultPortCount)
    IN  IF a.error = "none" /\ launched
        THEN [started |-> TRUE, raised |-> FALSE,
              allocated_ports |-> a.allocated_ports,
              next_port |-> a.next_port]
        ELSE [started |-> FALSE, raised |-> FALSE,
              allocated_ports |-> release_ports(a.allocated_ports, worker_id),
              next_port |-> a.next_port]

\* one pass of the inner while loop: pop a scenario and call _start_worker;
\* an exception leaving _start_worker leaves _execute_scenarios as well
StartWorker ==
    /\ spec = "run" /\ pc = "inner"
    /\ scenario_queue # <<>>
    /\ Cardinality(DOMAIN active_workers) < max_workers
    /\ \E launched \in BOOLEAN :
         LET popped == pop_first(scenario_queue)
             scenario == popped.scenario
             worker_id == NextWorkerId(workers)
             r == start_worker(allocated_ports, next_port,
                               base_port + port_range, worker_id, launched)
         IN /\ scenario_queue' = popped.rest
            /\ attempts' = Append(attempts, scenario)
            /\ next_port' = r.next_port
            /\ allocated_ports' = r.allocated_ports
            /\ pc' = IF r.raised THEN "finally" ELSE pc
            /\ IF r.started
               THEN /\ procs' = Append(procs, [worker_id |-> worker_id,
                                               scenario |-> scenario,
                                               state |-> "running"])
                    /\ workers' = MapPut(workers, worker_id, Len(procs) + 1)
                    /\ worker_scenarios' =
                           MapPut(worker_scenarios, worker_id, scenario)
                    /\ active_workers' =
                           MapPut(active_workers, worker_id, scenario)
               ELSE UNCHANGED <<procs, workers, worker_scenarios,
                                active_workers>>
    /\ UNCHANGED <<spec, monVars, debug_workers, max_workers, port_range, scenarios, failing,
                   results, timeout_count, warned, shutdown_event,
                   shutdown_calls, returned, result_queue, aggVars,
                   last_call>>

\* the rest of a pass of the outer loop: find the exited workers, clean them
\* up, sleep, and test the loop condition again
Poll ==
    /\ spec = "run" /\ pc = "inner"
    /\ ~(scenario_queue # <<>>
         /\ Cardinality(DOMAIN active_workers) < max_workers)
    /\ LET done == CompletedWorkers(workers, active_workers, procs)
           active == [w \in (DOMAIN active_workers) \ done |-> active_workers[w]]
       IN /\ active_workers' = active
          /\ workers' = [w \in (DOMAIN workers) \ done |-> workers[w]]
          /\ allocated_ports' = ReleaseCompleted(allocated_ports, done)
          /\ pc' = IF LoopGoesOn(scenario_queue, active)
                   THEN "inner" ELSE "collect"
    /\ UNCHANGED <<spec, monVars, debug_workers, max_workers, port_range, next_port, scenarios,
                   failing, scenario_queue, worker_scenarios, results,
                   timeout_count, warned, shutdown_event, shutdown_calls,
                   returned, procs, result_queue, attempts, aggVars,
                   last_call>>

\* _collect_results: result_queue.get returned a result
CollectGet ==
    /\ spec = "run" /\ pc = "collect"
    /\ Len(results) < ExpectedResults(worker_scenarios)
    /\ result_queue # <<>>
    /\ results' = Append(results, Head(result_queue))
    /\ worker_results' = Append(worker_results, Head(result_queue))
    /\ result_queue' = Tail(result_queue)
    /\ timeout_count' = 0
    /\ UNCHANGED <<spec, monVars, debug_workers, cfgVars, scenarios, failing, pc, scenario_queue,
                   active_workers, workers, worker_scenarios, warned,
                   shutdown_event, shutdown_calls, returned, procs,
                   attempts, aggregated_results, aggregate_calls, last_call>>

\* _collect_results: result_queue.get timed out
CollectTimeout ==
    /\ spec = "run" /\ pc = "collect"
    /\ Len(results) < ExpectedResults(worker_scenarios)
    /\ result_queue = <<>>
    /\ timeout_count' = timeout_count + 1
    /\ IF timeout_count + 1 >= max_timeouts
       THEN warned' = TRUE /\ pc' = "aggregate"
       ELSE UNCHANGED <<warned, pc>>
    /\ UNCHANGED <<spec, monVars, debug_workers, cfgVars, scenarios, failing, scenario_queue,
                   active_workers, workers, worker_scenarios, results,
                   shutdown_event, shutdown_calls, returned, procs,
                   result_queue, attempts, aggVars, last_call>>

\* _collect_results: the loop condition fails and the results are returned
CollectDone ==
    /\ spec = "run" /\ pc = "collect"
    /\ ~(Len(results) < ExpectedResults(worker_scenarios))
    /\ pc' = "aggregate"
    /\ UNCHANGED <<spec, monVars, debug_workers, cfgVars, scenarios, failing, scenario_queue,
                   active_workers, workers, worker_scenarios, results,
                   timeout_count, warned, shutdown_event, shutdown_calls,
                   returned, procs, result_queue, attempts, aggVars,
                   last_call>>

\* run_parallel: aggregate, checkpoint, report, return aggregated
Aggregate ==
    /\ spec = "run" /\ pc = "aggregate"
    /\ aggregated_results' = aggregate(aggregated_results, worker_results)
    /\ returned' = TRUE
    /\ aggregate_calls' = aggregate_calls + 1
    /\ pc' = "finally"
    /\ UNCHANGED <<spec, monVars, debug_workers, cfgVars, scenarios, failing, scenario_queue,
                   active_workers, workers, worker_scenarios, results,
                   timeout_count, warned, shutdown_event, shutdown_calls,
                   procs, result_queue, attempts, worker_results, last_call>>

\* an exception inside the try block (state file or report I/O): the except
\* clause records it and raises it again
RunRaises ==
    /\ spec = "run" /\ pc \in {"inner", "collect", "aggregate"}
    /\ pc' = "finally"
    /\ UNCHANGED <<spec, monVars, debug_workers, cfgVars, scenarios, failing, scenario_queue,
                   active_workers, workers, worker_scenarios, results,
                   timeout_count, warned, shutdown_event, shutdown_calls,
                   returned, procs, result_queue, attempts, aggVars,
                   last_call>>

\* the body of shutdown()
Shutdown ==
    /\ shutdown_event' = TRUE
    /\ procs' = ShutdownProcs(procs, workers)
    /\ allocated_ports' = ShutdownPorts(allocated_ports, workers)
    /\ shutdown_calls' = shutdown_calls + 1

\* the finally clause of run_parallel
Finally ==
    /\ spec = "run" /\ pc = "finally"
    /\ Shutdown
    /\ pc' = IF returned THEN "done" ELSE "raised"
    /\ UNCHANGED <<spec, monVars, debug_workers, max_workers, port_range, next_port, scenarios,
                   failing, scenario_queue, active_workers, workers,
                   worker_scenarios, results, timeout_count, warned,
                   returned, result_queue, attempts, aggVars, last_call>>

\* SIGINT / SIGTERM during the run: signal_handler calls shutdown() and then
\* sys.exit(0)
SignalHandler ==
    /\ spec = "run" /\ pc \in {"inner", "collect", "aggregate"}
    /\ Shutdown
    /\ pc' = "sysexit"
    /\ UNCHANGED <<spec, monVars, debug_workers, max_workers, port_range, next_port, scenarios,
                   failing, scenario_queue, active_workers, workers,
                   worker_scenarios, results, timeout_count, warned,
                   returned, result_queue, attempts, aggVars, last_call>>

\* SystemExit leaves run_parallel through its finally clause
FinallyOnExit ==
    /\ spec = "run" /\ pc = "sysexit"
    /\ Shutdown
    /\ pc' = "exited"
    /\ UNCHANGED <<spec, monVars, debug_workers, max_workers, port_range, next_port, scenarios,
                   failing, scenario_queue, active_workers, workers,
                   worker_scenarios, results, timeout_count, warned,
                   returned, result_queue, attempts, aggVars, last_call>>

\* the caller calls debugger.shutdown() after run_parallel has ended
ExplicitShutdown ==
    /\ spec = "run" /\ pc \in {"done", "raised"}
    /\ Shutdown
    /\ pc' = "closed"
    /\ UNCHANGED <<spec, monVars, debug_workers, max_workers, port_range, next_port, scenarios,
                   failing, scenario_queue, active_workers, workers,
                   worker_scenarios, results, timeout_count, warned,
                   returned, result_queue, attempts, aggVars, last_call>>

Orchestrator ==
    \/ Begin
    \/ StartWorker
    \/ Poll
    \/ CollectGet
    \/ CollectTimeout
    \/ CollectDone
    \/ Aggregate
    \/ Finally

WorkerStep ==
    \/ \E i \in 1 .. MaxScenarios + 1 : WorkerFinish(i)
    \/ \E i \in 1 .. MaxScenarios + 1 : WorkerKilled(i)

Next ==
    \/ Orchestrator
    \/ WorkerStep
    \/ RunRaises
    \/ SignalHandler
    \/ FinallyOnExit
    \/ ExplicitShutdown

Spec == RunInit /\ [][Next]_vars

\* an uninterrupted run: the control loop keeps running and every worker
\* process ends (its child is bounded by scenario.timeout)
FairNext ==
    \/ Orchestrator
    \/ WorkerStep

FairInit == RunInit /\ Len(scenarios) <= MaxFairScenarios

FairSpec ==
    FairInit /\ [][FairNext]_vars /\ WF_vars(Orchestrator) /\ WF_vars(WorkerStep)

\* ------------------------------------------------------------- ConfigSpec
ConfigInit ==
    /\ spec = "config"
    /\ max_workers = 1
    /\ port_range \in 1 .. MaxPortRange
    /\ allocated_ports = EmptyMap
    /\ next_port = base_port
    /\ scenarios = <<>> /\ failing = {} /\ pc = "idle"
    /\ scenario_queue = <<>> /\ active_workers = EmptyMap
    /\ workers = EmptyMap /\ worker_scenarios = EmptyMap
    /\ results = <<>> /\ timeout_count = 0 /\ warned = FALSE
    /\ shutdown_event = FALSE /\ shutdown_calls = 0 /\ returned = FALSE
    /\ procs = <<>> /\ result_queue = <<>>
    /\ worker_results = <<>> /\ aggregated_results = NewAggregatedResults
    /\ aggregate_calls = 0 /\ attempts = <<>>
    /\ last_call = [op |-> "none"]
    /\ debug_workers = <<>>
    /\ NoMonitor

\* a direct call config.allocate_ports(worker_id, count)
AllocatePorts(worker_id, count) ==
    /\ spec = "config"
    /\ LET a == allocate_ports(allocated_ports, next_port,
                               base_port + port_range, worker_id, count)
       IN /\ allocated_ports' = a.allocated_ports
          /\ next_port' = a.next_port
          /\ last_call' = [op |-> "allocate_ports", worker_id |-> worker_id,
                           count |-> count, error |-> a.error, ports |-> a.ports,
                           held |-> worker_id \in DOMAIN allocated_ports]
    /\ UNCHANGED <<spec, monVars, debug_workers, max_workers, port_range, runVars, aggVars>>

\* a direct call config.release_ports(worker_id)
ReleasePorts(worker_id) ==
    /\ spec = "config"
    /\ allocated_ports' = release_ports(allocated_ports, worker_id)
    /\ last_call' = [op |-> "release_ports", worker_id |-> worker_id,
                     count |-> 0, error |-> "none", ports |-> <<>>,
                     held |-> worker_id \in DOMAIN allocated_ports]
    /\ UNCHANGED <<spec, monVars, debug_workers, max_workers, port_range, next_port, runVars, aggVars>>

\* a direct call config.get_worker_env(worker_id, scenario)
GetWorkerEnv(worker_id) ==
    /\ spec = "config"
    /\ last_call' = [op |-> "get_worker_env", worker_id |-> worker_id,
                     env |-> get_worker_env(allocated_ports, worker_id)]
    /\ UNCHANGED <<spec, monVars, debug_workers, cfgVars, runVars, aggVars>>

ConfigNext ==
    \/ \E w \in 0 .. MaxWorkerIds - 1, c \in 1 .. MaxCount : AllocatePorts(w, c)
    \/ \E w \in 0 .. MaxWorkerIds - 1 : ReleasePorts(w)
    \/ \E w \in 0 .. MaxWorkerIds - 1 : GetWorkerEnv(w)

ConfigSpec == ConfigInit /\ [][ConfigNext]_vars

\* ---------------------------------------------------------------- AggSpec
\* result records handed to add_result
ResultInputs ==
    [worker_id : {0}, scenario_name : 1 .. 2, success : BOOLEAN,
     duration : 0 .. MaxDuration]

\* ResultAggregator.__init__, with nothing else going on
FreshAggregator ==
    /\ max_workers = 1
    /\ port_range = 1
    /\ allocated_ports = EmptyMap
    /\ next_port = base_port
    /\ scenarios = <<>> /\ failing = {} /\ pc = "idle"
    /\ scenario_queue = <<>> /\ active_workers = EmptyMap
    /\ workers = EmptyMap /\ worker_scenarios = EmptyMap
    /\ results = <<>> /\ timeout_count = 0 /\ warned = FALSE
    /\ shutdown_event = FALSE /\ shutdown_calls = 0 /\ returned = FALSE
    /\ procs = <<>> /\ result_queue = <<>>
    /\ worker_results = <<>> /\ aggregated_results = NewAggregatedResults
    /\ aggregate_calls = 0 /\ attempts = <<>>
    /\ last_call = [op |-> "none"]
    /\ debug_workers = <<>>
    /\ NoMonitor

AggInit == spec = "agg" /\ FreshAggregator

\* the specifications that drive a ResultAggregator
AggregatorApis == {"agg", "partial", "analysis", "timeline", "similarity"}

\* aggregator.add_result(worker_result)
AddResult(wr) ==
    /\ spec \in AggregatorApis
    /\ Len(worker_results) < MaxResults
    /\ worker_results' = Append(worker_results, wr)
    /\ last_call' = [op |-> "add_result"]
    /\ UNCHANGED <<spec, monVars, debug_workers, cfgVars, runVars, aggregated_results, aggregate_calls>>

\* aggregator.aggregate()
AggregateCall ==
    /\ spec \in AggregatorApis
    /\ aggregate_calls < MaxAggregateCalls
    /\ aggregated_results' = aggregate(aggregated_results, worker_results)
    /\ aggregate_calls' = aggregate_calls + 1
    /\ last_call' = [op |-> "aggregate",
                     raised |-> aggregate_steps(aggregated_results,
                                                worker_results).raised]
    /\ UNCHANGED <<spec, monVars, debug_workers, cfgVars, runVars, worker_results>>

AggNext ==
    \/ \E wr \in ResultInputs : AddResult(wr)
    \/ AggregateCall

AggSpec == AggInit /\ [][AggNext]_vars

\* ------------------------------------------------------------ PartialSpec
\* the keys of a result record that the aggregation reads with a default
OptionalFields ==
    {"duration", "error", "logs", "findings", "metrics", "checkpoints",
     "start_time", "end_time"}

\* the keys of WorkerResult.to_dict() that are modelled
RequiredFields == {"worker_id", "scenario_name", "success"}

\* a result record of a failed worker with every field present
FullResult ==
    [worker_id |-> 0, scenario_name |-> 1, success |-> FALSE, duration |-> 1,
     error |-> "Test exceeded timeout of 1s",
     logs |-> <<"ERROR: connection refused">>,
     findings |-> <<[type |-> "observation", description |-> <<"x">>]>>,
     metrics |-> [cache_hit_rate |-> 50],
     checkpoints |-> <<"cp">>, start_time |-> 1, end_time |-> 2]

\* the record with the optional fields outside present removed
Partial(wr, present) ==
    [k \in RequiredFields \cup present |-> wr[k]]

\* the same record of a worker that succeeded
PassedResult == [FullResult EXCEPT !.success = TRUE]

\* result records in which any subset of the optional fields is absent
PartialInputs ==
    {Partial(full, present) :
        full \in {FullResult, PassedResult}, present \in SUBSET OptionalFields}

PartialInit == spec = "partial" /\ FreshAggregator

\* partial records are added, then aggregate() is called once
PartialNext ==
    /\ aggregate_calls = 0
    /\ \/ \E wr \in PartialInputs :
              Len(worker_results) < MaxPartialResults /\ AddResult(wr)
       \/ AggregateCall

PartialSpec == PartialInit /\ [][PartialNext]_vars

\* ----------------------------------------------------------- AnalysisSpec
\* finding descriptions
Descriptions == <<(<<"x">>), <<"x", "y">>, (<<"y">>), (<<"X">>)>>

\* success and error of the result records
Outcomes ==
    {[success |-> TRUE, error |-> "none"],
     [success |-> FALSE, error |-> "Test exceeded timeout of 1s"],
     [success |-> FALSE,
      error |-> "database connection failed: query timed out"]}

\* result records that carry one finding each; scenario d has the finding
\* with description d
AnalysisInputs ==
    {[worker_id |-> 0, scenario_name |-> d, success |-> o.success,
      duration |-> 1 + (d % 2), error |-> o.error,
      findings |-> <<[type |-> "observation",
                      description |-> Descriptions[d]]>>] :
        d \in DOMAIN Descriptions, o \in Outcomes}

AnalysisInit == spec = "analysis" /\ FreshAggregator

\* the results of a run are added, then aggregate() is called once
AnalysisNext ==
    /\ aggregate_calls = 0
    /\ \/ \E wr \in AnalysisInputs : AddResult(wr)
       \/ AggregateCall

AnalysisSpec == AnalysisInit /\ [][AnalysisNext]_vars

\* ------------------------------------------------------------- WorkerSpec
\* TestType
TestTypes ==
    {"ui_flow", "api_test", "database", "integration", "performance",
     "security"}

\* the test types whose strategy resolves test_function to a script and
\* launches it
ScriptTypes == {"ui_flow", "api_test", "integration", "performance"}

\* how process.communicate(timeout=scenario.timeout) ends: the child exits
\* with code 0, exits with another code, or is still running at the timeout
ChildOutcomes == {"ok", "exit_code", "timeout"}

\* the _send_status calls of one run, in program order:
\* 1 starting, 2 running, 3 executing, 4 completed or failed, 5 cleanup
StatusSends == 1 .. 5

Siblings == 1 .. MaxSiblings

\* DebugWorker.__init__ with WorkerResult.__init__ (success False, error
\* None); exc is the exception in flight, events what the worker has put on
\* its two queues in order ("result" marks a result_queue.put), reported the
\* records it has put on the result queue
NewWorker ==
    [pc |-> "idle", test_type |-> "none", script |-> "unresolved",
     child |-> "none", outcome |-> "none", exc |-> "none",
     success |-> FALSE, error |-> "none", cleaned |-> FALSE,
     events |-> <<>>, reported |-> <<>>, failed_sends |-> 0]

\* mutant: a failing status_queue.put is raised to the caller
send_status_raises(w, status, ok) ==
    IF ok
    THEN [w EXCEPT !.events = Append(@, status)]
    ELSE [w EXCEPT !.failed_sends = @ + 1, !.exc = "queue"]

\* mutant: the status is put twice
send_status_twice(w, status, ok) ==
    IF ok
    THEN [w EXCEPT !.events = Append(Append(@, status), status)]
    ELSE [w EXCEPT !.failed_sends = @ + 1]

\* _send_status: status_queue.put inside try / bare except; ok says whether
\* the put goes through
send_status(w, status, ok) ==
    IF ok
    THEN [w EXCEPT !.events = Append(@, status)]
    ELSE [w EXCEPT !.failed_sends = @ + 1]

\* WorkerResult.complete(success, error)
complete(w, success, error) ==
    [w EXCEPT !.success = success, !.error = error]

\* _execute_test_script up to process.communicate: the "executing" status,
\* then Popen, which raises (wrapped in RuntimeError) or starts the child
execute_test_script(w, oks, launched) ==
    LET s == send_status(w, "executing", oks[3]) IN
    IF s.exc # "none" THEN s
    ELSE IF launched
         THEN [s EXCEPT !.child = "running", !.pc = "communicate"]
         ELSE [s EXCEPT !.outcome = "launch_error", !.exc = "launch_error"]

\* _run_ui_test: a missing script raises FileNotFoundError
run_ui_test(w, oks, found, launched) ==
    LET s == send_status(w, "running", oks[2]) IN
    IF s.exc # "none" THEN s
    ELSE LET r == [s EXCEPT !.script = IF found THEN "found" ELSE "none"] IN
         IF r.script = "none"
         THEN [r EXCEPT !.exc = "not_found"]
         ELSE execute_test_script(r, oks, launched)

\* _run_api_test: "if test_script:" skips the execution of a missing script
run_api_test(w, oks, found, launched) ==
    LET s == send_status(w, "running", oks[2]) IN
    IF s.exc # "none" THEN s
    ELSE LET r == [s EXCEPT !.script = IF found THEN "found" ELSE "none"] IN
         IF r.script # "none"
         THEN execute_test_script(r, oks, launched)
         ELSE r

\* _run_database_test: launches no script
run_database_test(w, oks) ==
    send_status(w, "running", oks[2])

\* _run_integration_test
run_integration_test(w, oks, found, launched) ==
    LET s == send_status(w, "running", oks[2]) IN
    IF s.exc # "none" THEN s
    ELSE LET r == [s EXCEPT !.script = IF found THEN "found" ELSE "none"] IN
         IF r.script # "none"
         THEN execute_test_script(r, oks, launched)
         ELSE r

\* _run_performance_test
run_performance_test(w, oks, found, launched) ==
    LET s == send_status(w, "running", oks[2]) IN
    IF s.exc # "none" THEN s
    ELSE LET r == [s EXCEPT !.script = IF found THEN "found" ELSE "none"] IN
         IF r.script # "none"
         THEN execute_test_script(r, oks, launched)
         ELSE r

\* the try block of run from its start to the point where the strategy
\* returns, raises, or waits in process.communicate
run_try(w, test_type, oks, found, launched) ==
    LET s == send_status([w EXCEPT !.test_type = test_type], "starting",
                         oks[1]) IN
    IF s.exc # "none" THEN s
    ELSE CASE test_type = "ui_flow" -> run_ui_test(s, oks, found, launched)
           [] test_type = "api_test" -> run_api_test(s, oks, found, launched)
           [] test_type = "database" -> run_database_test(s, oks)
           [] test_type = "integration" ->
                  run_integration_test(s, oks, found, launched)
           [] test_type = "performance" ->
                  run_performance_test(s, oks, found, launched)
           [] OTHER -> [s EXCEPT !.exc = "unknown_type"]

\* mutant: a child still running at the timeout is left alone and no error
\* is raised
communicate_ignores_timeout(w, outcome) ==
    CASE outcome = "ok" ->
             [w EXCEPT !.outcome = outcome, !.child = "exited"]
      [] outcome = "exit_code" ->
             [w EXCEPT !.outcome = outcome, !.child = "exited",
                       !.exc = "exit_code"]
      [] OTHER -> [w EXCEPT !.outcome = outcome]

\* _execute_test_script from process.communicate on: a non-zero return code
\* raises RuntimeError; TimeoutExpired kills the child and raises
\* TimeoutError
communicate(w, outcome) ==
    CASE outcome = "ok" ->
             [w EXCEPT !.outcome = outcome, !.child = "exited"]
      [] outcome = "exit_code" ->
             [w EXCEPT !.outcome = outcome, !.child = "exited",
                       !.exc = "exit_code"]
      [] OTHER ->
             [w EXCEPT !.outcome = outcome, !.child = "killed",
                       !.exc = "timeout"]

\* the "except Exception" clause of run
run_except(w, oks) ==
    send_status(complete([w EXCEPT !.exc = "none"], FALSE, w.exc), "failed",
                oks[4])

\* the end of the try block of run: complete(success=True) and the
\* "completed" status
run_complete(w, oks) ==
    LET s == send_status(complete(w, TRUE, "none"), "completed", oks[4]) IN
    IF s.exc # "none" THEN run_except(s, oks) ELSE s

\* _cleanup: the bare except swallows what its "cleanup" status raises
cleanup(w, ok) ==
    LET s == send_status([w EXCEPT !.cleaned = TRUE], "cleanup", ok) IN
    [s EXCEPT !.exc = w.exc]

\* WorkerResult.to_dict()
to_dict(w) == [success |-> w.success, error |-> w.error]

\* _send_final_result: result_queue.put(self.result.to_dict())
send_final_result(w) ==
    [w EXCEPT !.events = Append(@, "result"),
              !.reported = Append(@, to_dict(w))]

\* mutant: a failed run ends without reporting
run_finally_unless_failed(w, oks) ==
    IF w.success
    THEN [send_final_result(cleanup(w, oks[5])) EXCEPT !.pc = "done"]
    ELSE [cleanup(w, oks[5]) EXCEPT !.pc = "done"]

\* the finally clause of run, after which the worker process ends
run_finally(w, oks) ==
    [send_final_result(cleanup(w, oks[5])) EXCEPT !.pc = "done"]

\* run from the return (or raise) of the strategy to its end
run_rest(w, oks) ==
    run_finally(IF w.exc # "none" THEN run_except(w, oks)
                                  ELSE run_complete(w, oks), oks)

\* the result_queue.put calls of the worker so far
Puts(w) == SelectSeq(w.events, LAMBDA e : e = "result")

\* the status events the worker has got onto the status queue
Statuses(w) == SelectSeq(w.events, LAMBDA e : e # "result")

RECURSIVE FailedSends(_, _)
\* status sends that failed, over the workers 1 .. n
FailedSends(dw, n) ==
    IF n = 0 THEN 0 ELSE dw[n].failed_sends + FailedSends(dw, n - 1)

WorkerInit ==
    /\ spec = "worker"
    /\ max_workers = 1
    /\ port_range = 1
    /\ allocated_ports = EmptyMap
    /\ next_port = base_port
    /\ scenarios = <<>> /\ failing = {} /\ pc = "idle"
    /\ scenario_queue = <<>> /\ active_workers = EmptyMap
    /\ workers = EmptyMap /\ worker_scenarios = EmptyMap
    /\ results = <<>> /\ timeout_count = 0 /\ warned = FALSE
    /\ shutdown_event = FALSE /\ shutdown_calls = 0 /\ returned = FALSE
    /\ procs = <<>> /\ result_queue = <<>>
    /\ worker_results = <<>> /\ aggregated_results = NewAggregatedResults
    /\ aggregate_calls = 0 /\ attempts = <<>>
    /\ last_call = [op |-> "none"]
    /\ debug_workers = [i \in Siblings |-> NewWorker]
    /\ NoMonitor

\* the outcomes of status_queue.put for the sends of one step: oks[k] is
\* FALSE for the sends k in fails
SendOutcomes(fails) == [k \in StatusSends |-> k \notin fails]

\* the sets of sends among sends that may fail in the next step, given the
\* failures dw has seen
FailSets(dw, sends) ==
    {f \in SUBSET sends :
        Cardinality(f) <= MaxDropped - FailedSends(dw, MaxSiblings)}

\* run_worker / DebugWorker.run of worker i, to the point where it waits for
\* its child process or, when no child is started, to its end; test_type is
\* the scenario's type, found whether test_function resolves to a script,
\* launched whether Popen starts the child, fails the status sends that fail
WorkerRun(i) ==
    /\ spec = "worker"
    /\ debug_workers[i].pc = "idle"
    /\ \E test_type \in TestTypes :
       \E found \in IF test_type \in ScriptTypes THEN BOOLEAN ELSE {FALSE} :
       \E launched \in IF found THEN BOOLEAN ELSE {FALSE} :
       \E fails \in FailSets(debug_workers, StatusSends) :
          LET oks == SendOutcomes(fails)
              t == run_try(debug_workers[i], test_type, oks, found, launched)
              w == IF t.pc = "communicate" THEN t ELSE run_rest(t, oks)
          IN /\ w.failed_sends = Cardinality(fails)
             /\ debug_workers' = [debug_workers EXCEPT ![i] = w]
    /\ UNCHANGED <<spec, monVars, cfgVars, runVars, aggVars, last_call>>

\* process.communicate of worker i returns or times out, and run goes on to
\* its end
WorkerCommunicate(i) ==
    /\ spec = "worker"
    /\ debug_workers[i].pc = "communicate"
    /\ \E outcome \in ChildOutcomes,
          fails \in FailSets(debug_workers, {4, 5}) :
          LET oks == SendOutcomes(fails)
              w == run_rest(communicate(debug_workers[i], outcome), oks)
          IN /\ w.failed_sends =
                    debug_workers[i].failed_sends + Cardinality(fails)
             /\ debug_workers' = [debug_workers EXCEPT ![i] = w]
    /\ UNCHANGED <<spec, monVars, cfgVars, runVars, aggVars, last_call>>

WorkerNext ==
    \E i \in Siblings : WorkerRun(i) \/ WorkerCommunicate(i)

WorkerSpec == WorkerInit /\ [][WorkerNext]_vars

\* ============================================================ live monitor

\* the status events that one run of DebugWorker.run gets onto the status
\* queue, for a scenario of type test_type whose script is found or not and
\* whose child is launched or not and ends with outcome
StatusStream(test_type, found, launched, outcome) ==
    LET oks == SendOutcomes({})
        t == run_try(NewWorker, test_type, oks, found, launched)
        w == IF t.pc = "communicate"
             THEN run_rest(communicate(t, outcome), oks)
             ELSE run_rest(t, oks)
    IN Statuses(w)

\* every status stream a worker run can produce
WorkerStreams ==
    {StatusStream(test_type, found, launched, outcome) :
        test_type \in TestTypes, found \in BOOLEAN, launched \in BOOLEAN,
        outcome \in ChildOutcomes}

\* the workers the monitor is told about
Monitored == 1 .. MaxMonitored

\* WorkerStatus.__init__
NewWorkerStatus == [status |-> "pending", start_time |-> FALSE,
                    error |-> FALSE]

\* WorkerStatus.update: the status is overwritten, start_time is set by the
\* first "starting" and error by "failed"
update(worker, status) ==
    [status |-> status,
     start_time |-> worker.start_time \/ status = "starting",
     error |-> worker.error \/ status = "failed"]

\* the workers ws of the monitor whose status is one of statuses
CountStatus(ws, statuses) ==
    Cardinality({w \in DOMAIN ws : ws[w].status \in statuses})

\* _update_stats: every counter is recomputed from the workers' present
\* statuses
update_stats(ws, stats) ==
    [total |-> stats.total,
     completed |-> CountStatus(ws, {"completed"}),
     failed |-> CountStatus(ws, {"failed"}),
     running |-> CountStatus(ws, {"starting", "running", "executing"})]

\* _handle_status_update: the worker's WorkerStatus is created when its id
\* is new, updated, and the statistics are recomputed
handle_status_update(mon, upd) ==
    LET known == IF upd.worker_id \in DOMAIN mon.workers
                 THEN mon.workers
                 ELSE MapPut(mon.workers, upd.worker_id, NewWorkerStatus)
        after == [known EXCEPT ![upd.worker_id] = update(@, upd.status)]
    IN [workers |-> after, stats |-> update_stats(after, mon.stats)]

\* a monitor constructed for the workers of one run, each of which is about
\* to run its scenario
MonitorInit ==
    /\ spec = "monitor"
    /\ max_workers = 1
    /\ port_range = 1
    /\ allocated_ports = EmptyMap
    /\ next_port = base_port
    /\ scenarios = <<>> /\ failing = {} /\ pc = "idle"
    /\ scenario_queue = <<>> /\ active_workers = EmptyMap
    /\ workers = EmptyMap /\ worker_scenarios = EmptyMap
    /\ results = <<>> /\ timeout_count = 0 /\ warned = FALSE
    /\ shutdown_event = FALSE /\ shutdown_calls = 0 /\ returned = FALSE
    /\ procs = <<>> /\ result_queue = <<>>
    /\ worker_results = <<>> /\ aggregated_results = NewAggregatedResults
    /\ aggregate_calls = 0 /\ attempts = <<>>
    /\ last_call = [op |-> "none"]
    /\ debug_workers = <<>>
    /\ status_senders \in [Monitored -> WorkerStreams]
    /\ status_queue = [i \in Monitored |-> <<>>]
    /\ monitor = NewMonitor(MaxMonitored)

\* _send_status of worker i: its next status update is put on the queue
SendStatus(i) ==
    /\ spec = "monitor"
    /\ status_senders[i] # <<>>
    /\ status_queue' = [status_queue EXCEPT
                           ![i] = Append(@, [worker_id |-> i,
                                             status |-> Head(status_senders[i])])]
    /\ status_senders' = [status_senders EXCEPT ![i] = Tail(@)]
    /\ UNCHANGED <<spec, cfgVars, runVars, aggVars, last_call, debug_workers,
                   monitor>>

\* one round of _process_status_updates: the oldest update of worker i is
\* got from the queue and handled
ProcessStatusUpdate(i) ==
    /\ spec = "monitor"
    /\ status_queue[i] # <<>>
    /\ monitor' = handle_status_update(monitor, Head(status_queue[i]))
    /\ status_queue' = [status_queue EXCEPT ![i] = Tail(@)]
    /\ UNCHANGED <<spec, cfgVars, runVars, aggVars, last_call, debug_workers,
                   status_senders>>

MonitorNext ==
    \E i \in Monitored : SendStatus(i) \/ ProcessStatusUpdate(i)

MonitorSpec == MonitorInit /\ [][MonitorNext]_vars

\* ================================================================= claims

\* the scenarios for which a worker process was started
Started == {procs[i].scenario : i \in DOMAIN procs}

\* C1: at every point of a run the number of worker processes started and
\* not yet exited is at most max_workers.
C1_ConcurrencyBound ==
    Cardinality(AliveProcs(procs)) <= max_workers

\* C2: over any sequence of allocate_ports / release_ports calls, no port is
\* in two allocations held at the same time.
C2_PortExclusivity ==
    \A w1, w2 \in DOMAIN allocated_ports :
        w1 # w2 => Range(allocated_ports[w1]) \cap Range(allocated_ports[w2]) = {}

\* two allocations are held, the later one made after an earlier holder released
C2_Witness ==
    /\ last_call.op = "allocate_ports" /\ last_call.error = "none"
    /\ Cardinality(DOMAIN allocated_ports) >= 2
    /\ \E p \in base_port .. next_port - 1 :
           \A w \in DOMAIN allocated_ports : p \notin Range(allocated_ports[w])

\* C3: in an uninterrupted run every scenario passed to run_parallel
\* eventually either has a worker process started for it, or the run ends with
\* fewer results received than scenarios requested.
C3_StartedOrReportedMissing ==
    \A s \in 1 .. MaxFairScenarios :
        <>(\/ s \notin Range(scenarios)
           \/ s \in Started
           \/ pc = "done" /\ Len(results) < Len(scenarios))

\* the run has ended, one scenario got a worker and another one did not
C3_Witness ==
    /\ pc = "done"
    /\ Started # {}
    /\ \E s \in Range(scenarios) : s \notin Started
    /\ Len(results) < Len(scenarios)

\* C4: when every started worker process has pushed its result, collection
\* ends with as many results as worker processes were started.
C4_OneResultPerStartedWorker ==
    (pc = "aggregate" /\ \A i \in DOMAIN procs : procs[i].state = "exited")
        => Len(results) = Len(procs)

\* C5: scenarios A, B, C = 1, 2, 3 with max_workers = 2, B failing, every
\* worker reporting: run_parallel returns total 3, successful 2, failed 1.
C5_EndToEndCounts ==
    (/\ pc = "done"
     /\ Len(scenarios) = 3 /\ max_workers = 2 /\ failing = {2}
     /\ Started = {1, 2, 3}
     /\ \A i \in DOMAIN procs : procs[i].state = "exited")
        => /\ aggregated_results.total_scenarios = 3
           /\ aggregated_results.successful_scenarios = 2
           /\ aggregated_results.failed_scenarios = 1

\* C6: when a started worker never puts a result, collection stops after
\* max_timeouts consecutive timeouts with fewer results and the warning.
C6_MissingResultTimesOut ==
    (pc = "aggregate" /\ \E i \in DOMAIN procs : procs[i].state = "killed")
        => /\ warned
           /\ timeout_count = max_timeouts
           /\ Len(results) < Len(procs)

C8_ShutdownExactlyOnce ==
    pc \in {"done", "raised", "exited"} => shutdown_calls = 1

\* C9: aggregate() called again with no add_result in between returns the
\* same AggregatedResults.
C9_AggregateIdempotent ==
    [][(last_call.op = "aggregate" /\ aggregate_calls' = aggregate_calls + 1)
          => aggregated_results' = aggregated_results]_vars

\* C10: allocate_ports for a worker_id holding no ports, with count larger
\* than the ports remaining, raises the exhaustion error and leaves the
\* allocation table unchanged.
C10_ExhaustionLeavesTable ==
    [][(/\ last_call'.op = "allocate_ports"
        /\ last_call'.worker_id \notin DOMAIN allocated_ports
        /\ last_call'.count > base_port + port_range - next_port)
          => /\ last_call'.error = "RuntimeError"
             /\ allocated_ports' = allocated_ports]_vars

\* an allocation failed on exhaustion part-way through the remaining ports
\* while another worker holds ports
C10_Witness ==
    /\ last_call.op = "allocate_ports"
    /\ last_call.error = "RuntimeError"
    /\ last_call.count > 1
    /\ next_port = base_port + port_range
    /\ DOMAIN allocated_ports # {}
    /\ last_call.worker_id \notin DOMAIN allocated_ports

\* the ports of the table that are held by some worker
HeldPorts(table) == UNION {Range(table[w]) : w \in DOMAIN table}

\* C11: allocate_ports for a worker_id that holds an allocation fails with an
\* error and changes nothing: its ports, the other workers' ports and the
\* cursor stay as they were.
C11_DoubleAllocationRejected ==
    [][(last_call'.op = "allocate_ports"
        /\ last_call'.worker_id \in DOMAIN allocated_ports)
          => /\ last_call'.error = "ValueError"
             /\ allocated_ports' = allocated_ports
             /\ next_port' = next_port]_vars

\* a holder asked again while another worker holds ports too and ports remain
C11_Witness ==
    /\ last_call.op = "allocate_ports"
    /\ last_call.held
    /\ last_call.error = "ValueError"
    /\ Cardinality(DOMAIN allocated_ports) >= 2
    /\ next_port + last_call.count <= base_port + port_range

\* C12: after release_ports(w), allocate_ports(w, count) succeeds again
\* whenever count ports of the range are held by nobody, also when the whole
\* range had been handed out before the release.
C12_AllocateAfterRelease ==
    [][(/\ last_call.op = "release_ports"
        /\ last_call'.op = "allocate_ports"
        /\ last_call'.worker_id = last_call.worker_id
        /\ last_call'.count <= port_range - Cardinality(HeldPorts(allocated_ports)))
          => last_call'.error = "none"]_vars

\* C13: release_ports(worker_id) raises nothing, removes that worker's entry
\* only, and changes nothing when the worker holds no entry (so a second
\* release in a row changes nothing).
C13_ReleaseIdempotent ==
    [][last_call'.op = "release_ports"
          => /\ last_call'.error = "none"
             /\ allocated_ports' =
                    [w \in (DOMAIN allocated_ports) \ {last_call'.worker_id}
                        |-> allocated_ports[w]]
             /\ next_port' = next_port]_vars

\* a worker without an entry was released while another worker holds ports
C13_Witness ==
    /\ last_call.op = "release_ports"
    /\ ~last_call.held
    /\ DOMAIN allocated_ports # {}

\* C14: run_parallel with no scenarios raises before any port is allocated
\* and before any worker process is started.
C14_NoScenariosRejected ==
    scenarios = <<>>
        => /\ pc \in {"start", "rejected"}
           /\ procs = <<>>
           /\ DOMAIN allocated_ports = {}
           /\ next_port = base_port
           /\ ~returned

\* the call with an empty scenario list has raised
C14_Witness ==
    /\ scenarios = <<>>
    /\ pc = "rejected"

\* the place of a status in the order starting, running, executing,
\* completed | failed, cleanup
StatusRank(status) ==
    CASE status = "starting" -> 1
      [] status = "running" -> 2
      [] status = "executing" -> 3
      [] status \in {"completed", "failed"} -> 4
      [] status = "cleanup" -> 5
      [] OTHER -> 0

\* something went wrong in the scenario execution of worker w: its script
\* was not found, its child could not be started, exited non-zero or timed
\* out, or the run raised for its test type
ExecutionFailed(w) ==
    \/ w.test_type \in ScriptTypes /\ w.script = "none"
    \/ w.outcome \in {"launch_error", "exit_code", "timeout"}
    \/ w.test_type = "security"

\* C15: any failure inside a worker's scenario execution (script not found,
\* non-zero exit, timeout, uncaught exception) ends as that worker's result
\* with success false and error set, and no exception leaves the worker.
C15_FailureCaptured ==
    \A i \in Siblings :
        LET w == debug_workers[i] IN
        (w.pc = "done" /\ ExecutionFailed(w))
            => /\ w.exc = "none"
               /\ \A k \in DOMAIN w.reported :
                      /\ ~w.reported[k].success
                      /\ w.reported[k].error # "none"

\* C16: in every run of a worker, successful or failed, cleanup runs and the
\* result record is put on the result queue exactly once, as the last thing
\* the worker emits; before the end of the run nothing is put.
C16_CleanupThenResultOnce ==
    \A i \in Siblings :
        LET w == debug_workers[i] IN
        IF w.pc = "done"
        THEN /\ w.cleaned
             /\ Len(Puts(w)) = 1
             /\ w.events[Len(w.events)] = "result"
             /\ w.reported = <<to_dict(w)>>
        ELSE /\ Puts(w) = <<>>
             /\ w.reported = <<>>

\* a successful and a failed worker have both ended, the failed one after
\* waiting for its child
C16_Witness ==
    \E i, j \in Siblings :
        /\ debug_workers[i].pc = "done" /\ debug_workers[i].success
        /\ debug_workers[j].pc = "done" /\ ~debug_workers[j].success
        /\ debug_workers[j].outcome = "exit_code"
        /\ debug_workers[j].failed_sends = 0

\* C17: the status events of one worker follow the order starting, running,
\* executing, completed | failed, cleanup: none twice, none after a later
\* one, nothing after cleanup; a worker that ended without a failed send has
\* emitted exactly one of completed and failed, the one that matches its
\* result.
C17_StatusOrder ==
    \A i \in Siblings :
        LET w == debug_workers[i]
            st == Statuses(w)
        IN /\ \A k \in DOMAIN st : StatusRank(st[k]) > 0
           /\ \A k, l \in DOMAIN st :
                  k < l => StatusRank(st[k]) < StatusRank(st[l])
           /\ (w.pc = "done" /\ w.failed_sends = 0)
                 => /\ Cardinality({k \in DOMAIN st : StatusRank(st[k]) = 4}) = 1
                    /\ \E k \in DOMAIN st :
                           st[k] = IF w.success THEN "completed" ELSE "failed"

\* one worker went through all five statuses, another one failed
C17_Witness ==
    \E i, j \in Siblings :
        /\ debug_workers[i].events =
               <<"starting", "running", "executing", "completed", "cleanup",
                 "result">>
        /\ debug_workers[j].pc = "done"
        /\ Statuses(debug_workers[j]) =
               <<"starting", "running", "failed", "cleanup">>

\* C18: a worker whose child is still running at scenario.timeout kills the
\* child and reports success false with a timeout error; no other worker's
\* child is killed, and a sibling whose child exits with code 0 reports
\* success.
C18_TimeoutIsPerWorker ==
    \A i \in Siblings :
        LET w == debug_workers[i] IN
        /\ (w.pc = "done" /\ w.outcome = "timeout")
              => /\ w.child = "killed"
                 /\ \E k \in DOMAIN w.reported :
                        /\ ~w.reported[k].success
                        /\ w.reported[k].error = "timeout"
        /\ w.child = "killed" => w.outcome = "timeout"
        /\ (w.pc = "done" /\ w.outcome = "ok")
              => \E k \in DOMAIN w.reported : w.reported[k].success

\* a worker timed out and reported, and a sibling whose child ran to its
\* end reported success
C18_Witness ==
    \E i, j \in Siblings :
        /\ debug_workers[i].pc = "done"
        /\ debug_workers[i].outcome = "timeout"
        /\ debug_workers[i].child = "killed"
        /\ debug_workers[j].pc = "done"
        /\ debug_workers[j].child = "exited"
        /\ debug_workers[j].reported = <<[success |-> TRUE, error |-> "none"]>>

\* C19: for every strategy that launches a script (UI flow, API test,
\* integration test, performance test), a test_function that resolves to no
\* script makes the worker fail with a not-found error, success false.
C19_MissingScriptFails ==
    \A i \in Siblings :
        LET w == debug_workers[i] IN
        (w.pc = "done" /\ w.test_type \in ScriptTypes /\ w.script = "none")
            => /\ ~w.success
               /\ w.error = "not_found"

\* C20: a failed status send never aborts the worker: it reaches its end
\* with no exception in flight, and its result (success, error) equals that
\* of a worker with the same scenario and child outcome.
C20_StatusSendBestEffort ==
    \A i, j \in Siblings :
        LET w == debug_workers[i]
            v == debug_workers[j]
        IN /\ w.pc = "done" => (w.exc = "none" /\ Len(w.reported) = 1)
           /\ (/\ w.pc = "done" /\ v.pc = "done"
               /\ w.test_type = v.test_type
               /\ w.script = v.script
               /\ w.outcome = v.outcome)
                 => /\ w.success = v.success
                    /\ w.error = v.error

\* two workers ran the same scenario to success, one of them with a failed
\* status send
C20_Witness ==
    \E i, j \in Siblings :
        /\ debug_workers[i].pc = "done" /\ debug_workers[j].pc = "done"
        /\ debug_workers[i].test_type = debug_workers[j].test_type
        /\ debug_workers[i].script = debug_workers[j].script
        /\ debug_workers[i].outcome = "ok" /\ debug_workers[j].outcome = "ok"
        /\ debug_workers[i].failed_sends > 0
        /\ debug_workers[j].failed_sends = 0
        /\ debug_workers[i].success

\* the indices of the successful records of a result list
Successes(wrs) == {k \in DOMAIN wrs : wrs[k].success}

RECURSIVE SumDurations(_)
\* the sum of the durations of a result list
SumDurations(wrs) ==
    IF wrs = <<>> THEN 0 ELSE Head(wrs).duration + SumDurations(Tail(wrs))

\* C21: after aggregate() over N added results of which K are successful,
\* total_scenarios = N, successful_scenarios = K, failed_scenarios = N - K
\* and success_rate = K / N; with N = 0 the success_rate is 0.
C21_CountsAndSuccessRate ==
    last_call.op = "aggregate"
        => LET N == Len(worker_results)
               K == Cardinality(Successes(worker_results))
           IN /\ aggregated_results.total_scenarios = N
              /\ aggregated_results.successful_scenarios = K
              /\ aggregated_results.failed_scenarios = N - K
              /\ aggregated_results.success_rate = Div(K, N)

\* C22: after the first aggregate() of an aggregator over a non-empty result
\* list, total_duration is the sum of the durations, average_duration that
\* sum divided by the number of results, min_duration / max_duration the
\* smallest / largest duration among the results.
C22_DurationStatistics ==
    (last_call.op = "aggregate" /\ aggregate_calls = 1 /\ worker_results # <<>>)
        => LET ds == {worker_results[k].duration : k \in DOMAIN worker_results}
           IN /\ aggregated_results.total_duration = SumDurations(worker_results)
              /\ aggregated_results.average_duration =
                     Div(SumDurations(worker_results), Len(worker_results))
              /\ aggregated_results.min_duration \in ds
              /\ \A d \in ds : aggregated_results.min_duration <= d
              /\ aggregated_results.max_duration \in ds
              /\ \A d \in ds : aggregated_results.max_duration >= d

\* ----------------------------------------------------------- TimelineSpec
\* the checkpoint lists of the result records
CheckpointLists == {<<>>, <<"a">>, <<"a", "b">>}

\* the result record of the worker id with the given time stamps (0 for a
\* missing one) and checkpoints
TimedResult(id, start, end, cps) ==
    Partial([worker_id |-> id, scenario_name |-> id + 1, success |-> TRUE,
             start_time |-> start, end_time |-> end, checkpoints |-> cps],
            {"checkpoints"}
              \cup (IF start > 0 THEN {"start_time"} ELSE {})
              \cup (IF end > 0 THEN {"end_time"} ELSE {}))

\* the time stamps of the result records: an earlier and a later instant
TimeStamps == {1, 2}

\* result records of the worker id: it started at some instant and has ended
\* or not, or it carries no start time and then no checkpoint either
TimelineInputs(id) ==
    {TimedResult(id, start, end, cps) :
        start \in TimeStamps, end \in {0} \cup TimeStamps,
        cps \in CheckpointLists}
    \cup {TimedResult(id, 0, end, <<>>) : end \in {0} \cup TimeStamps}

TimelineInit == spec = "timeline" /\ FreshAggregator

\* the results of the workers 0, 1, ... are added, then aggregate() is
\* called once
TimelineNext ==
    /\ aggregate_calls = 0
    /\ \/ \E wr \in TimelineInputs(Len(worker_results)) : AddResult(wr)
       \/ AggregateCall

TimelineSpec == TimelineInit /\ [][TimelineNext]_vars

\* ---------------------------------------------------------- RecommendSpec
\* result lists as (success, duration) pairs: success rates below, at and
\* above one half, longest durations below, at and above three times the
\* average
RunProfiles ==
    {<<(<<TRUE, 1>>)>>,
     <<(<<FALSE, 1>>)>>,
     <<(<<FALSE, 1>>), <<TRUE, 2>>>>,
     <<(<<FALSE, 3>>), <<FALSE, 0>>, <<TRUE, 0>>>>,
     <<(<<TRUE, 4>>), <<TRUE, 0>>, <<TRUE, 0>>, <<FALSE, 0>>>>,
     <<(<<FALSE, 4>>), <<FALSE, 0>>, <<FALSE, 0>>, <<FALSE, 0>>>>}

\* the result records of a profile
ProfileResults(profile) ==
    [k \in DOMAIN profile |->
        [worker_id |-> k - 1, scenario_name |-> k,
         success |-> profile[k][1], duration |-> profile[k][2]]]

\* error categories the error analysis may have found
FoundCategories == {"timeout", "connection", "authentication", "database"}

\* AggregatedResults values as aggregate() hands them to the recommendation
\* generator: the statistics of a profile, and error patterns, root causes
\* and common findings present or not
RecommendationInputs ==
    {[calculate_basic_stats(NewAggregatedResults, ProfileResults(profile))
         EXCEPT !.error_patterns =
                    [c \in cats |-> <<[scenario |-> 1, error |-> c]>>],
                !.root_causes =
                    IF roots
                    THEN <<[type |-> "root_cause", description |-> <<"x">>]>>
                    ELSE <<>>,
                !.common_findings =
                    IF common
                    THEN [observation |->
                             <<[description |-> <<"x">>, count |-> 2,
                                scenarios |-> <<1, 1>>, evidence |-> <<>>]>>]
                    ELSE EmptyMap] :
        profile \in RunProfiles, cats \in SUBSET FoundCategories,
        roots \in BOOLEAN, common \in BOOLEAN}

RecommendInit ==
    /\ spec = "recommend"
    /\ max_workers = 1
    /\ port_range = 1
    /\ allocated_ports = EmptyMap
    /\ next_port = base_port
    /\ scenarios = <<>> /\ failing = {} /\ pc = "idle"
    /\ scenario_queue = <<>> /\ active_workers = EmptyMap
    /\ workers = EmptyMap /\ worker_scenarios = EmptyMap
    /\ results = <<>> /\ timeout_count = 0 /\ warned = FALSE
    /\ shutdown_event = FALSE /\ shutdown_calls = 0 /\ returned = FALSE
    /\ procs = <<>> /\ result_queue = <<>>
    /\ worker_results = <<>>
    /\ aggregated_results \in RecommendationInputs
    /\ aggregate_calls = 0 /\ attempts = <<>>
    /\ last_call = [op |-> "none"]
    /\ debug_workers = <<>>
    /\ NoMonitor

\* ResultAggregator._generate_recommendations
GenerateRecommendations ==
    /\ spec = "recommend"
    /\ aggregated_results' =
           [aggregated_results EXCEPT
               !.recommendations = generate_recommendations(aggregated_results)]
    /\ last_call' = [op |-> "generate_recommendations"]
    /\ UNCHANGED <<spec, monVars, debug_workers, cfgVars, runVars, worker_results,
                   aggregate_calls>>

RecommendNext == GenerateRecommendations

RecommendSpec == RecommendInit /\ [][RecommendNext]_vars

\* --------------------------------------------------------- SimilaritySpec
\* the words of the short descriptions
ShortWords == {"x", "y", "z", "X"}

\* a description of ten different words
TenWords == <<"a", "b", "c", "d", "e", "f", "g", "h", "i", "j">>

\* the ten-word description with its last n words replaced by other words
Replaced(n) ==
    [k \in DOMAIN TenWords |->
        IF k <= Len(TenWords) - n THEN TenWords[k]
        ELSE <<"k", "l", "m", "n">>[k - (Len(TenWords) - n)]]

\* finding descriptions: one or two short words, and ten-word descriptions
\* that share 10, 8, 7 or 6 of their words
SimilarityTexts ==
    {<<w>> : w \in ShortWords}
    \cup {<<v, w>> : v \in ShortWords, w \in ShortWords}
    \cup {Replaced(n) : n \in {0, 2, 3, 4}}

\* one result record with two findings of the same type
SimilarityInputs ==
    {[worker_id |-> 0, scenario_name |-> 1, success |-> TRUE, duration |-> 1,
      findings |-> <<[type |-> "observation", description |-> text1],
                     [type |-> "observation", description |-> text2]>>] :
        text1 \in SimilarityTexts, text2 \in SimilarityTexts}

SimilarityInit == spec = "similarity" /\ FreshAggregator

\* a result with two findings is added, then aggregate() is called once
SimilarityNext ==
    /\ aggregate_calls = 0
    /\ \/ \E wr \in SimilarityInputs : worker_results = <<>> /\ AddResult(wr)
       \/ AggregateCall

SimilaritySpec == SimilarityInit /\ [][SimilarityNext]_vars

\* C23: aggregate() never raises on a result record with partially-missing
\* fields: whatever subset of duration, metrics, error, logs, findings,
\* checkpoints, start_time, end_time is absent, the call ends without an
\* exception.
C23_ToleratesMissingFields ==
    last_call.op = "aggregate" => last_call.raised = "none"

\* s and t hold the same elements the same number of times
SameBag(s, t) ==
    /\ Len(s) = Len(t)
    /\ \A k \in DOMAIN s : Count(s, s[k]) = Count(t, s[k])

\* the clusters of common_findings: per finding type, which scenarios are
\* grouped together
Clusters(res) ==
    [t \in DOMAIN res.common_findings |->
        {res.common_findings[t][k].scenarios :
            k \in DOMAIN res.common_findings[t]}]

\* the parts of two AggregatedResults named by C24 agree
SameAnalysis(a, b) ==
    /\ a.total_scenarios = b.total_scenarios
    /\ a.successful_scenarios = b.successful_scenarios
    /\ a.failed_scenarios = b.failed_scenarios
    /\ a.success_rate = b.success_rate
    /\ a.total_duration = b.total_duration
    /\ a.average_duration = b.average_duration
    /\ a.min_duration = b.min_duration
    /\ a.max_duration = b.max_duration
    /\ DOMAIN a.error_patterns = DOMAIN b.error_patterns
    /\ \A c \in DOMAIN a.error_patterns :
           SameBag(a.error_patterns[c], b.error_patterns[c])
    /\ DOMAIN a.common_findings = DOMAIN b.common_findings
    /\ \A t \in DOMAIN a.common_findings :
           {Range(c) : c \in Clusters(a)[t]} = {Range(c) : c \in Clusters(b)[t]}

\* C24: the AggregatedResults does not depend on the order in which results
\* arrive: aggregating any permutation of the same records gives the same
\* counts, success rate, duration statistics, entries per error category and
\* grouping of findings into clusters.
C24_OrderIndependent ==
    last_call.op = "aggregate"
        => \A p \in Permutations(DOMAIN worker_results) :
               SameAnalysis(aggregated_results,
                            aggregate(NewAggregatedResults,
                                      [k \in DOMAIN worker_results |->
                                          worker_results[p[k]]]))

\* C25: the worker ids given to the worker processes of one run are pairwise
\* distinct, so an id is never assigned while another worker with that id is
\* still running.
C25_FreshWorkerIds ==
    \A i, j \in DOMAIN procs :
        i # j => procs[i].worker_id # procs[j].worker_id

\* C26: every worker process that is alive is tracked by the orchestrator
\* under its own worker_id and holds an entry in the port allocation table;
\* no start attempt releases the ports of a running worker or replaces its
\* tracked process handle.
C26_AliveWorkersTracked ==
    \A i \in AliveProcs(procs) :
        /\ procs[i].worker_id \in DOMAIN workers
        /\ workers[procs[i].worker_id] = i
        /\ procs[i].worker_id \in DOMAIN allocated_ports

\* C29: when shutdown() has returned, the shutdown flag is set and no worker
\* process started during the run is still alive.
C29_NoWorkerAliveAfterShutdown ==
    shutdown_calls > 0 => shutdown_event /\ AliveProcs(procs) = {}

\* a step in which _start_worker was called and started no process
FailedStart ==
    /\ Len(attempts') = Len(attempts) + 1
    /\ Len(procs') = Len(procs)

\* C27: a scenario whose port allocation or process launch fails is the only
\* one abandoned: the error does not leave the scheduling loop, the scenarios
\* queued behind it stay queued and are all attempted by the time the loop
\* ends, and the workers already running are left running.
C27_StartFailureIsLocal ==
    /\ [][FailedStart => /\ pc' = "inner"
                         /\ scenario_queue' = Tail(scenario_queue)
                         /\ procs' = procs]_vars
    /\ [](pc = "collect" => attempts = scenarios)

\* a start failed while a worker started earlier was running, and a scenario
\* queued behind the failed one has been attempted since
C27_Witness ==
    \E k \in DOMAIN attempts :
        /\ attempts[k] \notin Started
        /\ k < Len(attempts)
        /\ \E i \in AliveProcs(procs) : procs[i].scenario < attempts[k]

\* a step that is the poll and clean-up part of a pass of the scheduling loop
PollStep ==
    /\ pc = "inner" /\ pc' \in {"inner", "collect"}
    /\ attempts' = attempts /\ procs' = procs

\* the active workers whose process the orchestrator finds exited
ObservedExited ==
    {w \in DOMAIN active_workers :
        w \in DOMAIN workers /\ procs[workers[w]].state # "running"}

\* C28: every active worker that the orchestrator finds exited is removed
\* from the active set and has its ports released in that same pass of the
\* loop; when the scheduling loop ends, the active set and the port
\* allocation table are empty.
C28_ExitedWorkerCleanedUp ==
    /\ [][PollStep => \A w \in ObservedExited :
                          /\ w \notin DOMAIN active_workers'
                          /\ w \notin DOMAIN allocated_ports']_vars
    /\ [](pc = "collect" => /\ active_workers = EmptyMap
                            /\ allocated_ports = EmptyMap)

\* the loop has ended after two workers ran and were cleaned up in different
\* passes (max_workers is 1)
C28_Witness ==
    /\ pc = "collect"
    /\ max_workers = 1
    /\ Len(procs) >= 2
    /\ allocated_ports = EmptyMap

\* C30: in an uninterrupted run in which every started worker process ends,
\* the scheduling loop, once entered, comes to its end, and at its end the
\* scenario queue is empty and no worker is active, for every scenario list,
\* every max_workers >= 1 and every pattern of start failures.
C30_SchedulingLoopTerminates ==
    /\ (pc = "inner") ~> (pc = "collect")
    /\ [](pc = "collect" => /\ scenario_queue = <<>>
                            /\ DOMAIN active_workers = {})

\* the loop has ended after a start failure and after workers that ran side
\* by side
C30_Witness ==
    /\ pc = "collect"
    /\ max_workers >= 2
    /\ \E s \in Range(attempts) : s \notin Started
    /\ Len(procs) >= 2

\* C31: scenarios are taken from the queue in FIFO order: the start attempts
\* made so far are the first scenarios of the input list, in the order of the
\* list, so a scenario at an earlier position is attempted before one at a
\* later position and none is attempted twice.
C31_FifoStartOrder ==
    /\ Len(attempts) <= Len(scenarios)
    /\ \A k \in DOMAIN attempts : attempts[k] = scenarios[k]

\* three scenarios have been attempted, one of them failed to start and one
\* was started after a worker had been cleaned up
C31_Witness ==
    /\ Len(attempts) >= 3
    /\ \E s \in Range(attempts) : s \notin Started
    /\ \E i \in DOMAIN procs : procs[i].state = "exited"
    /\ \E i \in DOMAIN procs : procs[i].state = "running"

\* the ports held under some worker id
HeldNow == UNION {Range(allocated_ports[w]) : w \in DOMAIN allocated_ports}

\* C32: every port handed out by allocate_ports lies in
\* [base_port, base_port + port_range), the allocation cursor never
\* decreases over allocate_ports / release_ports calls, and a port handed
\* out is not one that an earlier holder still holds.
C32_PortsInRangeCursorMonotonic ==
    [][/\ next_port' >= next_port
       /\ (last_call'.op = "allocate_ports" /\ last_call'.error = "none")
              => \A p \in Range(last_call'.ports) :
                     /\ base_port <= p /\ p < base_port + port_range
                     /\ p \notin HeldNow]_vars

\* the last port of the range has just been handed out, after an earlier
\* holder released its ports and while another worker holds an allocation
C32_Witness ==
    /\ last_call.op = "allocate_ports" /\ last_call.error = "none"
    /\ base_port + port_range - 1 \in Range(last_call.ports)
    /\ Cardinality(DOMAIN allocated_ports) >= 2
    /\ \E p \in base_port .. next_port - 1 : p \notin HeldNow

\* C33: a failed allocate_ports call leaves the allocation cursor where it
\* was, so a later request that fits in the ports that remained before the
\* failed call still succeeds.
C33_FailedAllocationKeepsCursor ==
    [][(last_call'.op = "allocate_ports" /\ last_call'.error # "none")
          => next_port' = next_port]_vars

\* the port values that get_worker_env gives to the worker w
EnvPorts(w) ==
    LET env == get_worker_env(allocated_ports, w)
    IN  {env[k] : k \in DOMAIN env}

\* C34: after any allocate_ports calls (any count >= 1), the APP_PORT and
\* API_PORT that get_worker_env gives to a worker are ports of that worker's
\* own allocation, so no two workers holding allocations at the same time
\* are given the same port value.
C34_EnvPortsAreOwnPorts ==
    (last_call.op = "get_worker_env"
       /\ last_call.worker_id \in DOMAIN allocated_ports)
        => LET w == last_call.worker_id IN
           /\ \A k \in DOMAIN last_call.env :
                  \E p \in Range(allocated_ports[w]) : last_call.env[k] = Str(p)
           /\ \A v \in (DOMAIN allocated_ports) \ {w} :
                  EnvPorts(v) \cap EnvPorts(w) = {}

\* where an event stands among the events of its worker: start, end, then
\* the checkpoints in recorded order
InsertionRank(ev) ==
    IF ev.event = "start" THEN 0
    ELSE IF ev.event = "end" THEN 1
    ELSE 1 + FirstIndex(worker_results[ev.worker_id + 1].checkpoints,
                        ev.checkpoint)

\* e1 is inserted before e2: workers in result-list order (the worker id is
\* the list position less one), and per worker by InsertionRank
InsertedBefore(e1, e2) ==
    \/ e1.worker_id < e2.worker_id
    \/ e1.worker_id = e2.worker_id /\ InsertionRank(e1) < InsertionRank(e2)

\* the events a result record gives rise to
EventsExpected(wr) ==
    (IF "start_time" \in DOMAIN wr THEN {<<wr.worker_id, "start", wr.start_time>>} ELSE {})
    \cup (IF "end_time" \in DOMAIN wr THEN {<<wr.worker_id, "end", wr.end_time>>} ELSE {})
    \cup {<<wr.worker_id, wr.checkpoints[k], wr.start_time>> : k \in DOMAIN wr.checkpoints}

\* an event of the timeline, as the worker, what happened, and when
EventKey(ev) ==
    <<ev.worker_id,
      IF ev.event = "checkpoint" THEN ev.checkpoint ELSE ev.event,
      ev.timestamp>>

\* C35: the timeline of an aggregation holds every event once, sorted by
\* timestamp in ascending order, and events with equal timestamps keep their
\* insertion order (per worker: start, end, then its checkpoints in recorded
\* order; workers in result-list order).
C35_TimelineSortedStable ==
    last_call.op = "aggregate" =>
        LET t == aggregated_results.timeline IN
        /\ {EventKey(t[k]) : k \in DOMAIN t}
               = UNION {EventsExpected(worker_results[k]) : k \in DOMAIN worker_results}
        /\ \A i, j \in DOMAIN t :
               i < j => \/ t[i].timestamp < t[j].timestamp
                        \/ /\ t[i].timestamp = t[j].timestamp
                           /\ InsertedBefore(t[i], t[j])

\* the timeline holds the events of two workers that started at the same
\* time, a checkpoint among them, and an earlier end of a worker added later
C35_Witness ==
    /\ last_call.op = "aggregate"
    /\ Len(worker_results) >= 3
    /\ LET t == aggregated_results.timeline IN
       /\ \E i, j \in DOMAIN t :
              /\ i < j /\ t[i].timestamp = t[j].timestamp
              /\ t[i].worker_id < t[j].worker_id
              /\ t[i].event = "checkpoint" /\ t[j].event = "start"
       /\ \E i, j \in DOMAIN t :
              /\ i < j /\ t[i].timestamp < t[j].timestamp
              /\ t[i].worker_id > t[j].worker_id

\* the recommendation rules in the order of the code
RuleOrder ==
    <<"low_success_rate", "timeout", "authentication", "database",
      "duration_variance", "root_causes", "common_findings">>

\* the condition of a rule on an AggregatedResults value
RuleHolds(rule, res) ==
    CASE rule = "low_success_rate" -> 2 * res.success_rate[1] < res.success_rate[2]
      [] rule = "timeout" -> "timeout" \in DOMAIN res.error_patterns
      [] rule = "authentication" -> "authentication" \in DOMAIN res.error_patterns
      [] rule = "database" -> "database" \in DOMAIN res.error_patterns
      [] rule = "duration_variance" ->
             res.max_duration * res.average_duration[2]
                 > 3 * res.average_duration[1]
      [] rule = "root_causes" -> Len(res.root_causes) > 0
      [] rule = "common_findings" -> DOMAIN res.common_findings # {}

\* C36: the recommendation rules are independent: each rule contributes its
\* recommendation, once, if and only if its own condition holds on the
\* aggregated results, whatever other rules fire, and the recommendations
\* appear in the fixed rule order.
C36_RulesIndependent ==
    last_call.op = "generate_recommendations" =>
        LET recs == aggregated_results.recommendations IN
        /\ \A k \in DOMAIN RuleOrder :
               RuleHolds(RuleOrder[k], aggregated_results)
                   <=> Count(recs, RuleOrder[k]) = 1
        /\ Range(recs) \subseteq Range(RuleOrder)
        /\ \A i, j \in DOMAIN recs :
               i < j => FirstIndex(RuleOrder, recs[i]) < FirstIndex(RuleOrder, recs[j])

\* all seven rules fired at once
C36_Witness ==
    /\ last_call.op = "generate_recommendations"
    /\ aggregated_results.recommendations = RuleOrder

\* the two descriptions are similar as the claim has it: equal ignoring
\* case, one containing the other, or sharing at least 70% of the words of
\* the shorter one
SimilarAtSeventy(text1, text2) ==
    LET t1 == Normalize(text1)
        t2 == Normalize(text2)
        shared == Cardinality(Words(t1) \cap Words(t2))
        shorter == Min(Cardinality(Words(t1)), Cardinality(Words(t2)))
    IN \/ t1 = t2
       \/ Contains(t1, t2) \/ Contains(t2, t1)
       \/ shorter > 0 /\ 10 * shared >= 7 * shorter

\* C37: two finding descriptions are clustered together exactly when they
\* are equal ignoring case, when one contains the other, or when their
\* token-overlap ratio |intersection| / min(|words1|, |words2|) is at least
\* 70%, a ratio of exactly 70% included.
C37_SimilarityThreshold ==
    (last_call.op = "aggregate" /\ Len(worker_results) = 1
       /\ "findings" \in DOMAIN worker_results[1]
       /\ Len(worker_results[1].findings) = 2)
        => LET f == worker_results[1].findings IN
           ("observation" \in DOMAIN aggregated_results.common_findings)
               <=> SimilarAtSeventy(f[1].description, f[2].description)

\* the entries that the claim expects under the category c for the result wr
ExpectedEntries(wr, c) ==
    IF wr.success THEN {}
    ELSE (IF "error" \in DOMAIN wr /\ c \in MatchingCategories(wr.error)
          THEN {[scenario |-> wr.scenario_name, error |-> wr.error]}
          ELSE {})
         \cup {[scenario |-> wr.scenario_name, log |-> l] :
                  l \in {m \in Range(Get(wr, "logs", <<>>)) :
                            MentionsErrorOrFail(m) /\ c \in MatchingCategories(m)}}

\* C38: for every worker result with success=false, its error string and
\* each of its log lines containing 'error' or 'fail' is recorded in
\* error_patterns under every category whose pattern matches it; results
\* with success=true contribute no entry.
C38_ErrorsCategorised ==
    last_call.op = "aggregate" =>
        \A c \in Range(ErrorCategories) :
            Range(Get(aggregated_results.error_patterns, c, <<>>))
                = UNION {ExpectedEntries(worker_results[k], c) :
                            k \in DOMAIN worker_results}

\* completed + failed as the monitor shows it
Counted(mon) == mon.stats.completed + mon.stats.failed

\* C39: once the monitor has counted a worker as completed or failed it
\* stays counted: completed + failed never decreases while the status
\* updates of the run, the workers' final "cleanup" included, are handled.
C39_CountedWorkersStayCounted ==
    [][Counted(monitor') >= Counted(monitor)]_vars

====
